---- MODULE Spec2Model ----
(***************************************************************************)
(* A model of the release graph and versioning engine of the clikd CLI:    *)
(* the project graph and its release order, the conventional-commit        *)
(* analyzer, the ecosystem rewriters (mix.exs, go.mod) with their atomic   *)
(* file write, and the signed release manifest.                            *)
(*                                                                         *)
(* Each component has its own specification (SpecMerge, SpecAnalyzer, ...) *)
(* over the module's variables; a specification keeps the variables of the *)
(* other components at their idle value.                                   *)
(***************************************************************************)
EXTENDS Integers, Sequences, FiniteSets, TLC

VARIABLES
    mergeCase,      \* BumpRecommendation::merge applied to drawn operands
    messages,       \* the commit messages handed to analyze_commit_messages
    analysis,       \* the CommitAnalysis it returned, or NoAnalysis
    categorized,    \* what categorize_commits returned for them, or NotCategorized
    projects,       \* the graph's nodes in discovery order (ProjectId = index)
    ignored,        \* the project names whose configuration says ignore
    graphPhase,     \* "idle", "building", "ready", "error" or "shown"
    toposort,       \* the ids in release order, computed when loading completes
    release_order,  \* App.release_order of the graph view
    added,          \* the last try_add_project call: its name and what it returned
    disk,           \* the manifest file of the working copy
    tmp,            \* the temporary file of an atomic write, or Absent
    proj,           \* the project the loader registered, or NoProj
    changes,        \* the ChangeList handed to rewrite
    rw,             \* the loader's and rewriter's position and locals
    manifest,       \* the ReleaseManifest
    lastOp,         \* the last call made on the manifest
    prep,           \* a prepare run: its arguments, position, locals and result
    wc,             \* the working copy and the Git state a prepare run acts on
    bumpCase,       \* a base version and what each bump scheme made of it
    loader,         \* a loader's finalize: its candidates, position and result
    http            \* a send_with_retry call: its attempt, sleeps and result

mergeVars == <<mergeCase>>
analyzerVars == <<messages, analysis, categorized>>
graphVars == <<projects, ignored, graphPhase, toposort, release_order, added>>
rewriteVars == <<disk, tmp, proj, changes, rw>>
manifestVars == <<manifest, lastOp>>
prepareVars == <<prep, wc>>
versionVars == <<bumpCase>>
discoveryVars == <<loader>>
clientVars == <<http>>

vars == <<mergeCase, messages, analysis, categorized,
          projects, ignored, graphPhase, toposort, release_order, added,
          disk, tmp, proj, changes, rw,
          manifest, lastOp, prep, wc, bumpCase, loader, http>>

\* What the actions of one component leave alone: every other component.
MergeFrame == UNCHANGED <<analyzerVars, graphVars, rewriteVars, manifestVars, prepareVars, versionVars, discoveryVars, clientVars>>
AnalyzerFrame == UNCHANGED <<mergeVars, graphVars, rewriteVars, manifestVars, prepareVars, versionVars, discoveryVars, clientVars>>
GraphFrame == UNCHANGED <<mergeVars, analyzerVars, rewriteVars, manifestVars, prepareVars, versionVars, discoveryVars, clientVars>>
RewriteFrame == UNCHANGED <<mergeVars, analyzerVars, graphVars, manifestVars, prepareVars, versionVars, discoveryVars, clientVars>>
ManifestFrame == UNCHANGED <<mergeVars, analyzerVars, graphVars, rewriteVars, prepareVars, versionVars, discoveryVars, clientVars>>
PrepareFrame == UNCHANGED <<mergeVars, analyzerVars, graphVars, rewriteVars, manifestVars, versionVars, discoveryVars, clientVars>>
VersionFrame == UNCHANGED <<mergeVars, analyzerVars, graphVars, rewriteVars, manifestVars, prepareVars, discoveryVars, clientVars>>
DiscoveryFrame == UNCHANGED <<mergeVars, analyzerVars, graphVars, rewriteVars, manifestVars, prepareVars, versionVars, clientVars>>
ClientFrame == UNCHANGED <<mergeVars, analyzerVars, graphVars, rewriteVars, manifestVars, prepareVars, versionVars, discoveryVars>>

----------------------------------------------------------------------------
(* Bounds *)

MaxCommits == 3
MaxDeps == 3
MaxVer == 2
MaxRewrites == 2
MaxReleases == 2

----------------------------------------------------------------------------
(* Helpers on sequences *)

RECURSIVE SeqsUpTo(_, _)
SeqsUpTo(S, n) ==
    IF n = 0 THEN {<<>>}
    ELSE LET shorter == SeqsUpTo(S, n - 1)
         IN  shorter \cup {Append(s, x) : s \in {t \in shorter : Len(t) = n - 1}, x \in S}

\* Option<String>
NoneStr == [some |-> FALSE, val |-> ""]
SomeStr(str) == [some |-> TRUE, val |-> str]

----------------------------------------------------------------------------
(* commit_analyzer.rs: BumpRecommendation *)

BumpRecommendation == {"Major", "Minor", "Patch", "None"}

\* merge with the Minor arm lost: a Minor operand no longer dominates Patch.
mergeDropsMinor(self, other) ==
    IF self = "Major" \/ other = "Major" THEN "Major"
    ELSE IF self = "Patch" \/ other = "Patch" THEN "Patch"
    ELSE IF self = "Minor" \/ other = "Minor" THEN "Minor"
    ELSE "None"

\* The match of BumpRecommendation::merge, arm by arm.
merge(self, other) ==
    IF self = "Major" \/ other = "Major" THEN "Major"
    ELSE IF self = "Minor" \/ other = "Minor" THEN "Minor"
    ELSE IF self = "Patch" \/ other = "Patch" THEN "Patch"
    ELSE "None"

----------------------------------------------------------------------------
(* Specification SpecMerge: merge applied to every triple of operands *)

NoMerge == [phase |-> "idle"]

MergeIdle == mergeCase = NoMerge

InitMergeCase ==
    \E x \in BumpRecommendation, y \in BumpRecommendation, z \in BumpRecommendation :
        mergeCase = [phase |-> "drawn", x |-> x, y |-> y, z |-> z]

\* x.merge(y), y.merge(x), x.merge(y).merge(z) and x.merge(y.merge(z)).
ApplyMerge ==
    /\ mergeCase.phase = "drawn"
    /\ mergeCase' = [phase |-> "merged",
                     x |-> mergeCase.x, y |-> mergeCase.y, z |-> mergeCase.z,
                     xy |-> merge(mergeCase.x, mergeCase.y),
                     yx |-> merge(mergeCase.y, mergeCase.x),
                     xy_z |-> merge(merge(mergeCase.x, mergeCase.y), mergeCase.z),
                     x_yz |-> merge(mergeCase.x, merge(mergeCase.y, mergeCase.z))]
    /\ MergeFrame

----------------------------------------------------------------------------
(* commit_analyzer.rs: conventional-commit parsing (Commit::parse)          *)
(*                                                                         *)
(* A commit message is a sequence of tokens.  The grammar is the           *)
(* conventional-commit one: type, optional "(scope)", optional "!", ": ",  *)
(* a description, then optionally a blank line and body/footer lines; a    *)
(* footer is `token: value` at the start of a line.                        *)

Idents == {"feat", "fix", "perf", "docs", "chore", "refactor", "api",
           "ci", "test", "style", "build"}
Punct == {"(", ")", "!", ":", " ", "\n", "\n\n"}
BreakingTokens == {"BREAKING CHANGE", "BREAKING-CHANGE"}

HasScope(m) == Len(m) >= 4 /\ m[2] = "(" /\ m[3] \in Idents /\ m[4] = ")"
AfterScope(m) == IF HasScope(m) THEN 5 ELSE 2
HasBang(m) == Len(m) >= AfterScope(m) /\ m[AfterScope(m)] = "!"
ColonAt(m) == AfterScope(m) + (IF HasBang(m) THEN 1 ELSE 0)
RestAt(m) == ColonAt(m) + 3

\* Commit::parse(message) is Ok.
ParseOk(m) ==
    /\ Len(m) >= ColonAt(m) + 2
    /\ m[1] \in Idents
    /\ m[ColonAt(m)] = ":"
    /\ m[ColonAt(m) + 1] = " "
    /\ m[ColonAt(m) + 2] \notin Punct
    /\ (Len(m) >= RestAt(m) => m[RestAt(m)] = "\n\n")

\* A `BREAKING CHANGE: value` (or BREAKING-CHANGE) footer after the summary.
HasBreakingFooter(m) ==
    \E j \in RestAt(m)..Len(m) :
        /\ m[j] \in {"\n", "\n\n"}
        /\ j + 4 <= Len(m)
        /\ m[j + 1] \in BreakingTokens
        /\ m[j + 2] = ":"
        /\ m[j + 3] = " "
        /\ m[j + 4] \notin Punct

\* commit.type_() and commit.breaking() of a parsed commit.
CommitType(m) == m[1]
CommitBreaking(m) == HasBang(m) \/ HasBreakingFooter(m)

----------------------------------------------------------------------------
(* commit_analyzer.rs: analyze_commit_messages *)

NoAnalysis == [recommendation |-> "unset"]

\* The analysis with total_commits left at zero.
NewAnalysisWithoutTotal(n) ==
    [recommendation |-> "None", total_commits |-> 0, feat_count |-> 0,
     fix_count |-> 0, breaking_count |-> 0, other_count |-> 0]

NewAnalysis(n) ==
    [recommendation |-> "None", total_commits |-> n, feat_count |-> 0,
     fix_count |-> 0, breaking_count |-> 0, other_count |-> 0]

\* The classification with the breaking test after the type test: a breaking
\* feat or fix commit is then classified by its type.
CommitRecommendationTypeFirst(m) ==
    IF ~ParseOk(m) THEN "None"
    ELSE IF CommitType(m) = "feat" THEN "Minor"
    ELSE IF CommitType(m) \in {"fix", "perf"} THEN "Patch"
    ELSE IF CommitBreaking(m) THEN "Major"
    ELSE "None"

\* The recommendation one message contributes (the match at lines 154-180).
CommitRecommendation(m) ==
    IF ~ParseOk(m) THEN "None"
    ELSE IF CommitBreaking(m) THEN "Major"
    ELSE IF CommitType(m) = "feat" THEN "Minor"
    ELSE IF CommitType(m) = "fix" THEN "Patch"
    ELSE IF CommitType(m) = "perf" THEN "Patch"
    ELSE "None"

\* The iteration with a message that does not parse left out of the counts.
AnalyzeOneParsedOnly(an, m) ==
    LET rec == CommitRecommendation(m)
        counted ==
            IF ~ParseOk(m) THEN an
            ELSE IF CommitBreaking(m) THEN [an EXCEPT !.breaking_count = @ + 1]
            ELSE IF CommitType(m) = "feat" THEN [an EXCEPT !.feat_count = @ + 1]
            ELSE IF CommitType(m) \in {"fix", "perf"} THEN [an EXCEPT !.fix_count = @ + 1]
            ELSE [an EXCEPT !.other_count = @ + 1]
    IN  [counted EXCEPT !.recommendation = merge(an.recommendation, rec)]

\* One iteration of the loop: bump a counter, merge the recommendation.
AnalyzeOne(an, m) ==
    LET rec == CommitRecommendation(m)
        counted ==
            IF ~ParseOk(m) THEN [an EXCEPT !.other_count = @ + 1]
            ELSE IF CommitBreaking(m) THEN [an EXCEPT !.breaking_count = @ + 1]
            ELSE IF CommitType(m) = "feat" THEN [an EXCEPT !.feat_count = @ + 1]
            ELSE IF CommitType(m) \in {"fix", "perf"} THEN [an EXCEPT !.fix_count = @ + 1]
            ELSE [an EXCEPT !.other_count = @ + 1]
    IN  [counted EXCEPT !.recommendation = merge(an.recommendation, rec)]

\* The running recommendation overwritten by each commit instead of merged.
RECURSIVE AnalyzeLoopLastWins(_, _, _)
AnalyzeLoopLastWins(an, ms, i) ==
    IF i > Len(ms) THEN an
    ELSE AnalyzeLoopLastWins(
             [AnalyzeOne(an, ms[i]) EXCEPT !.recommendation = CommitRecommendation(ms[i])],
             ms, i + 1)

RECURSIVE AnalyzeLoop(_, _, _)
AnalyzeLoop(an, ms, i) ==
    IF i > Len(ms) THEN an
    ELSE AnalyzeLoop(AnalyzeOne(an, ms[i]), ms, i + 1)

analyze_commit_messages(ms) == AnalyzeLoop(NewAnalysis(Len(ms)), ms, 1)

----------------------------------------------------------------------------
(* commit_analyzer.rs: ChangelogCategory and categorize_commits *)

\* The derived Ord of ChangelogCategory: the order of the declaration.
CategoryOrd(c) ==
    CASE c = "Added" -> 0 [] c = "Changed" -> 1 [] c = "Deprecated" -> 2
      [] c = "Removed" -> 3 [] c = "Fixed" -> 4 [] c = "Security" -> 5

\* The mapping with documentation commits put under Changed.
from_conventional_type_with_docs(commit_type) ==
    CASE commit_type = "feat" -> "Added"
      [] commit_type = "fix" -> "Fixed"
      [] commit_type \in {"perf", "refactor", "docs"} -> "Changed"
      [] OTHER -> "NoCategory"

\* ChangelogCategory::from_conventional_type, "NoCategory" for None.
from_conventional_type(commit_type) ==
    CASE commit_type = "feat" -> "Added"
      [] commit_type = "fix" -> "Fixed"
      [] commit_type = "perf" -> "Changed"
      [] commit_type = "refactor" -> "Changed"
      [] commit_type \in {"docs", "chore", "ci", "test", "style", "build"} -> "NoCategory"
      [] OTHER -> "NoCategory"

CommitDescription(m) == m[ColonAt(m) + 2]
CommitScope(m) == IF HasScope(m) THEN SomeStr(m[3]) ELSE NoneStr

CategorizedCommit(category, m, breaking) ==
    [category |-> category, message |-> CommitDescription(m),
     scope |-> CommitScope(m), breaking |-> breaking, original |-> m]

\* The body of the loop: what one message pushes onto the vector.
CategorizeOne(acc, m) ==
    IF ~ParseOk(m) THEN acc
    ELSE IF CommitBreaking(m) THEN Append(acc, CategorizedCommit("Changed", m, TRUE))
    ELSE IF from_conventional_type(CommitType(m)) # "NoCategory"
    THEN Append(acc, CategorizedCommit(from_conventional_type(CommitType(m)), m, FALSE))
    ELSE acc

RECURSIVE CategorizeLoop(_, _, _)
CategorizeLoop(acc, ms, i) ==
    IF i > Len(ms) THEN acc
    ELSE CategorizeLoop(CategorizeOne(acc, ms[i]), ms, i + 1)

\* An insertion that puts an element before its equals: the sort is not stable.
InsertBeforeEquals(sorted, c) ==
    LET before == SelectSeq(sorted, LAMBDA d : CategoryOrd(d.category) < CategoryOrd(c.category))
        after == SelectSeq(sorted, LAMBDA d : CategoryOrd(d.category) >= CategoryOrd(c.category))
    IN  before \o <<c>> \o after

\* One insertion of the stable sort: after every element not greater.
InsertByKey(sorted, c) ==
    LET before == SelectSeq(sorted, LAMBDA d : CategoryOrd(d.category) <= CategoryOrd(c.category))
        after == SelectSeq(sorted, LAMBDA d : CategoryOrd(d.category) > CategoryOrd(c.category))
    IN  before \o <<c>> \o after

\* categorized.sort_by_key(|c| c.category): a stable sort.
RECURSIVE SortByKey(_, _, _)
SortByKey(cs, i, sorted) ==
    IF i > Len(cs) THEN sorted
    ELSE SortByKey(cs, i + 1, InsertByKey(sorted, cs[i]))

categorize_commits(ms) == SortByKey(CategorizeLoop(<<>>, ms, 1), 1, <<>>)

----------------------------------------------------------------------------
(* Specification SpecAnalyzer: a history of commit messages is analyzed *)

MessagePool ==
    { <<"feat", ":", " ", "add X">>,
      <<"fix", ":", " ", "correct bug">>,
      <<"perf", ":", " ", "faster walk">>,
      <<"docs", ":", " ", "update README">>,
      <<"refactor", "(", "api", ")", ":", " ", "split module">>,
      <<"feat", "!", ":", " ", "remove Y">>,
      <<"docs", "!", ":", " ", "drop page">>,
      <<"fix", "(", "api", ")", "!", ":", " ", "change reply">>,
      <<"feat", ":", " ", "add feature", "\n\n", "BREAKING CHANGE", ":", " ", "breaks API">>,
      <<"chore", ":", " ", "bump", "\n\n", "see notes", "\n", "BREAKING-CHANGE", ":", " ", "drops v1">>,
      <<"ci", ":", " ", "pin runner">>,
      <<"Initial commit">>,
      <<"feat", ":", " ">> }

NotCategorized == [returned |-> FALSE, list |-> <<>>]

AnalyzerIdle == messages = <<>> /\ analysis = NoAnalysis /\ categorized = NotCategorized

InitAnalyzer ==
    /\ messages \in SeqsUpTo(MessagePool, MaxCommits)
    /\ analysis = NoAnalysis
    /\ categorized = NotCategorized

AnalyzeCommitMessages ==
    /\ analysis = NoAnalysis
    /\ analysis' = analyze_commit_messages(messages)
    /\ UNCHANGED <<messages, categorized>>
    /\ AnalyzerFrame

CategorizeCommits ==
    /\ categorized = NotCategorized
    /\ categorized' = [returned |-> TRUE, list |-> categorize_commits(messages)]
    /\ UNCHANGED <<messages, analysis>>
    /\ AnalyzerFrame

----------------------------------------------------------------------------
(* The project graph: try_add_project, internal dependencies, the          *)
(* topological order computed when loading completes, and the release      *)
(* order the graph view builds from toposorted().                          *)

ProjectNames == {"common", "app", "web"}

ProjectIds(ps) == 1..Len(ps)

RegisteredNames(ps) == {ps[i].user_facing_name : i \in ProjectIds(ps)}

NDeps(ps) ==
    LET RECURSIVE Sum(_)
        Sum(i) == IF i = 0 THEN 0 ELSE Len(ps[i].internal_deps) + Sum(i - 1)
    IN  Sum(Len(ps))

DepIds(ps, a) == {ps[a].internal_deps[k] : k \in 1..Len(ps[a].internal_deps)}

\* Option<ProjectId>
NoneId == [some |-> FALSE, val |-> 0]
SomeId(id) == [some |-> TRUE, val |-> id]

NoCall == [name |-> "", ident |-> NoneId]

GraphIdle ==
    /\ projects = <<>>
    /\ ignored = {}
    /\ graphPhase = "idle"
    /\ toposort = <<>>
    /\ release_order = <<>>
    /\ added = NoCall

InitGraph ==
    /\ projects = <<>>
    /\ ignored \in SUBSET ProjectNames
    /\ graphPhase = "building"
    /\ toposort = <<>>
    /\ release_order = <<>>
    /\ added = NoCall

\* try_add_project(qnames, pconfig): None for a registered or an ignored name,
\* otherwise a new node and its id.
try_add_project(ps, ign, name) ==
    IF name \in RegisteredNames(ps) \/ name \in ign
    THEN [graph |-> ps, ident |-> NoneId]
    ELSE [graph |-> Append(ps, [user_facing_name |-> name, internal_deps |-> <<>>,
                                rewriters |-> <<>>]),
          ident |-> SomeId(Len(ps) + 1)]

\* The rewriter pushed onto the project of the candidate's name, whatever
\* try_add_project returned.
AttachRewriterToNamed(ps, ident, name) ==
    [i \in 1..Len(ps) |->
        IF ps[i].user_facing_name = name
        THEN [ps[i] EXCEPT !.rewriters = Append(@, [proj_id |-> i])]
        ELSE ps[i]]

\* if let Some(ident) = try_add_project(..) { .. proj.rewriters.push(..) }
AttachRewriter(ps, ident, name) ==
    IF ident.some
    THEN [ps EXCEPT ![ident.val].rewriters = Append(@, [proj_id |-> ident.val])]
    ELSE ps

\* A loader's finalize registers the candidate it parsed under its name.
TryAddProject(name) ==
    /\ graphPhase = "building"
    /\ LET r == try_add_project(projects, ignored, name)
       IN  /\ projects' = AttachRewriter(r.graph, r.ident, name)
           /\ added' = [name |-> name, ident |-> r.ident]
    /\ UNCHANGED <<ignored, graphPhase, toposort, release_order>>
    /\ GraphFrame

\* A loader records that project a depends on project b.
AddInternalDep(a, b) ==
    /\ graphPhase = "building"
    /\ a \in ProjectIds(projects) /\ b \in ProjectIds(projects)
    /\ b \notin DepIds(projects, a)
    /\ NDeps(projects) < MaxDeps
    /\ projects' = [projects EXCEPT ![a].internal_deps = Append(@, b)]
    /\ UNCHANGED <<ignored, graphPhase, toposort, release_order, added>>
    /\ GraphFrame

\* Depth-first search with colour marking, dependencies first: a node is
\* emitted after all the nodes it depends on; meeting a grey node is a cycle.
RECURSIVE Visit(_, _, _), VisitDeps(_, _, _, _)
Visit(ps, n, st) ==
    IF st.cycle \/ st.color[n] = "black" THEN st
    ELSE IF st.color[n] = "gray" THEN [st EXCEPT !.cycle = TRUE]
    ELSE LET entered == [st EXCEPT !.color[n] = "gray"]
             below == VisitDeps(ps, ps[n].internal_deps, 1, entered)
         IN  IF below.cycle THEN below
             ELSE [below EXCEPT !.color[n] = "black", !.out = Append(@, n)]
VisitDeps(ps, deps, k, st) ==
    IF k > Len(deps) THEN st
    ELSE VisitDeps(ps, deps, k + 1, Visit(ps, deps[k], st))

RECURSIVE VisitAll(_, _, _)
VisitAll(ps, n, st) ==
    IF n > Len(ps) THEN st
    ELSE VisitAll(ps, n + 1, Visit(ps, n, st))

ToposortOf(ps) ==
    VisitAll(ps, 1, [color |-> [i \in ProjectIds(ps) |-> "white"],
                     out |-> <<>>, cycle |-> FALSE])

\* AppSession::initialize_default, once the loaders have populated the graph:
\* the release order is computed, a cycle fails the initialization.
InitializeDefault ==
    /\ graphPhase = "building"
    /\ LET r == ToposortOf(projects)
       IN  /\ graphPhase' = IF r.cycle THEN "error" ELSE "ready"
           /\ toposort' = r.out
    /\ UNCHANGED <<projects, ignored, release_order, added>>
    /\ GraphFrame

\* run() goes on to App::new only with the session atry! let through.
SessionUsableAnyway(phase) == phase \in {"ready", "error"}

SessionUsable(phase) == phase = "ready"

\* release_order built from the discovery-order ids, not from toposorted().
ReleaseOrderOfIdents(ps, order) ==
    [i \in 1..Len(ps) |-> ps[i].user_facing_name]

\* sess.graph().toposorted().map(|id| lookup(id).user_facing_name).collect()
ReleaseOrder(ps, order) ==
    [i \in 1..Len(order) |-> ps[order[i]].user_facing_name]

\* run() after initialization: query the projects, build the App.
AppNew ==
    /\ SessionUsable(graphPhase)
    /\ projects # <<>>
    /\ graphPhase' = "shown"
    /\ release_order' = ReleaseOrder(projects, toposort)
    /\ UNCHANGED <<projects, ignored, toposort, added>>
    /\ GraphFrame

----------------------------------------------------------------------------
(* Manifest text.  A file's content is a sequence of tokens; "\n" and "\r" *)
(* are tokens of their own, so line splitting, trimming and the version    *)
(* line's rewrite act on the text as the code's string operations do.      *)

Whitespace == {" ", "  ", "    ", "\r", "\t"}

Absent == [exists |-> FALSE, data |-> <<>>]
FileOf(tokens) == [exists |-> TRUE, data |-> tokens]

Last(t) == t[Len(t)]
Front(t) == SubSeq(t, 1, Len(t) - 1)

\* A line ended by "\n" loses a "\r" before it ("\r\n" is one line ending).
StripCR(line) == IF line # <<>> /\ Last(line) = "\r" THEN Front(line) ELSE line

\* str::lines() and BufRead::lines(): the lines without their endings; a last
\* line needs no ending, and no empty line follows a final "\n".
RECURSIVE LinesFrom(_, _, _, _)
LinesFrom(c, i, cur, acc) ==
    IF i > Len(c) THEN (IF cur = <<>> THEN acc ELSE Append(acc, cur))
    ELSE IF c[i] = "\n" THEN LinesFrom(c, i + 1, <<>>, Append(acc, StripCR(cur)))
    ELSE LinesFrom(c, i + 1, Append(cur, c[i]), acc)

Lines(c) == LinesFrom(c, 1, <<>>, <<>>)

RECURSIVE TrimStart(_)
TrimStart(t) ==
    IF t # <<>> /\ t[1] \in Whitespace THEN TrimStart(Tail(t)) ELSE t

RECURSIVE TrimEnd(_)
TrimEnd(t) ==
    IF t # <<>> /\ Last(t) \in Whitespace THEN TrimEnd(Front(t)) ELSE t

Trim(t) == TrimEnd(TrimStart(t))

\* The tokens of a sequence joined into one string.
RECURSIVE Concat(_)
Concat(t) == IF t = <<>> THEN "" ELSE t[1] \o Concat(Tail(t))

RECURSIVE Flatten(_)
Flatten(ls) == IF ls = <<>> THEN <<>> ELSE ls[1] \o Flatten(Tail(ls))

\* str::find of a token: the index of its first occurrence, 0 if none.
Find(t, tok) ==
    IF \E i \in 1..Len(t) : t[i] = tok
    THEN CHOOSE i \in 1..Len(t) : t[i] = tok /\ \A j \in 1..(i - 1) : t[j] # tok
    ELSE 0

----------------------------------------------------------------------------
(* Versions: semver::Version, its Display and semver::Version::parse *)

VersionDomain == (0..MaxVer) \X (0..MaxVer) \X (0..MaxVer)

VersionToString(v) == ToString(v[1]) \o "." \o ToString(v[2]) \o "." \o ToString(v[3])

IsSemver(str) == \E v \in VersionDomain : VersionToString(v) = str
VersionParse(str) == CHOOSE v \in VersionDomain : VersionToString(v) = str

\* BumpScheme::apply for the concrete schemes.
BumpSchemeApply(scheme, v) ==
    CASE scheme = "major" -> <<v[1] + 1, 0, 0>>
      [] scheme = "minor" -> <<v[1], v[2] + 1, 0>>
      [] scheme = "patch" -> <<v[1], v[2], v[3] + 1>>

\* Version::parse_bump_scheme of a scheme text.
ParseBumpScheme(text) ==
    CASE text = "major bump" -> "major"
      [] text = "minor bump" -> "minor"
      [] text = "micro bump" -> "patch"
      [] OTHER -> "Err"

----------------------------------------------------------------------------
(* Specification SpecBump: the bump step of prepare (parse the scheme text, *)
(* apply the scheme to the project's version) on every base version         *)

SchemeTexts == {"major bump", "minor bump", "micro bump"}

NoBump == [phase |-> "idle"]
VersionIdle == bumpCase = NoBump

NotApplied == <<>>

InitBump ==
    \E v \in VersionDomain :
        bumpCase = [phase |-> "drawn", base |-> v,
                    version |-> [t \in SchemeTexts |-> NotApplied]]

\* The scheme applied to a clone: the project keeps its version.
BumpedClone(text, v) == v

\* prepare.rs: bump_scheme = proj.version.parse_bump_scheme(text)?;
\* bump_scheme.apply(&mut proj_mut.version)
Bumped(text, v) == BumpSchemeApply(ParseBumpScheme(text), v)

\* The step on a project at the base version, for one scheme text.
BumpVersion(text) ==
    /\ bumpCase.phase = "drawn"
    /\ bumpCase.version[text] = NotApplied
    /\ bumpCase' = [bumpCase EXCEPT !.version[text] = Bumped(text, bumpCase.base)]
    /\ VersionFrame

----------------------------------------------------------------------------
(* elixir.rs: ElixirLoader::extract_app_name, extract_version *)

\* The part of a trimmed line after its first token's colon, trimmed.
AfterKey(trimmed) == Trim(Tail(trimmed))

\* What one line yields for extract_version: the text between the quotes of
\* `version: "..."`, or nothing.
VersionOfLine(line) ==
    LET trimmed == Trim(line)
        part == AfterKey(trimmed)
    IN  IF trimmed # <<>> /\ trimmed[1] = "version:"
           /\ part # <<>> /\ part[1] = "\"" /\ Find(Tail(part), "\"") > 0
        THEN SomeStr(Concat(SubSeq(Tail(part), 1, Find(Tail(part), "\"") - 1)))
        ELSE NoneStr

RECURSIVE FirstSome(_, _)
FirstSome(results, i) ==
    IF i > Len(results) THEN NoneStr
    ELSE IF results[i].some THEN results[i]
    ELSE FirstSome(results, i + 1)

extract_version(contents) ==
    LET ls == Lines(contents)
    IN  FirstSome([i \in 1..Len(ls) |-> VersionOfLine(ls[i])], 1)

\* What one line yields for extract_app_name: the atom of `app: :name,`.
AppNameOfLine(line) ==
    LET trimmed == Trim(line)
        part == AfterKey(trimmed)
    IN  IF trimmed # <<>> /\ trimmed[1] = "app:" /\ part # <<>> /\ part[1] = ":"
        THEN LET name == Trim(Tail(part))
             IN  SomeStr(Concat(IF name # <<>> /\ Last(name) = ","
                                THEN Front(name) ELSE name))
        ELSE NoneStr

extract_app_name(contents) ==
    LET ls == Lines(contents)
    IN  FirstSome([i \in 1..Len(ls) |-> AppNameOfLine(ls[i])], 1)

\* go.rs: the module name of the first `module ` line.
ModuleOfLine(line) ==
    LET trimmed == Trim(line)
    IN  IF Len(trimmed) >= 2 /\ trimmed[1] = "module" /\ trimmed[2] = " "
        THEN SomeStr(Concat(Trim(SubSeq(trimmed, 3, Len(trimmed)))))
        ELSE NoneStr

go_module_name(contents) ==
    LET ls == Lines(contents)
    IN  FirstSome([i \in 1..Len(ls) |-> ModuleOfLine(ls[i])], 1)

----------------------------------------------------------------------------
(* The manifests of the working copy *)

MixExsPath == "apps/web/mix.exs"
GoModPath == "services/api/go.mod"

\* Lines joined by the line ending, with or without a final one.
RECURSIVE Render(_, _, _)
Render(ls, eol, finalEol) ==
    IF ls = <<>> THEN <<>>
    ELSE IF Len(ls) = 1 THEN ls[1] \o (IF finalEol THEN eol ELSE <<>>)
    ELSE ls[1] \o eol \o Render(Tail(ls), eol, finalEol)

LineEndings == { <<"\n">>, <<"\r", "\n">> }

MixVersionLines ==
    { << <<"  ", "version:", " ", "\"", "1.0.0", "\"", ",">> >>,
      << <<"  ", "version:", " ", "\"", "1.0.0", "\"", ",", " ", "# keep in sync">> >>,
      << <<"  ", "version:", " ", "\"", "1.0.0", "\"">> >>,
      << <<"  ", "version:", " ", "@version", ",">> >>,
      << <<"  ", "version:", " ", "\"", "one", "\"", ",">> >>,
      <<>> }

\* The project keyword list: a version entry without a comma is the last one.
MixExsLines(versionLines) ==
    IF versionLines # <<>> /\ Last(versionLines[1]) = "\""
    THEN << <<"def project do">>, <<"  ", "app:", " ", ":", "my_app", ",">>,
            <<"  ", "deps:", " ", "deps()", ",">> >>
             \o versionLines \o << <<"end">> >>
    ELSE << <<"def project do">>, <<"  ", "app:", " ", ":", "my_app", ",">> >>
             \o versionLines \o << <<"  ", "deps:", " ", "deps()">>, <<"end">> >>

MixExsFiles ==
    { Render(MixExsLines(vl), eol, fin) :
          vl \in MixVersionLines, eol \in LineEndings, fin \in BOOLEAN }
    \cup { Render(<< <<"def project do">>, <<"  ", "version:", " ", "\"", "1.0.0", "\"", ",">>,
                     <<"end">> >>, <<"\n">>, TRUE) }

GoModFiles ==
    { Render(<< <<"module", " ", "example.com/api">>, <<>>, <<"go", " ", "1.22">> >>, eol, fin) :
          eol \in LineEndings, fin \in BOOLEAN }
    \cup { Render(<< <<"go", " ", "1.22">> >>, <<"\n">>, TRUE) }

----------------------------------------------------------------------------
(* elixir.rs, go.rs: the loaders' finalize and the rewriters *)

NoProj == [registered |-> FALSE]

\* process_index_item recorded the path: the file's basename is the manifest
\* name of the ecosystem.
EcosystemOf(path) == IF path = MixExsPath THEN "elixir" ELSE "go"

DefaultElixirVersion == <<0, 1, 0>>
GoVersion == <<0, 0, 0>>

\* ElixirLoader::finalize for one candidate: the project it registers.
ElixirProject(path, contents) ==
    LET text == extract_version(contents)
        version_str == IF text.some THEN text.val ELSE "0.1.0"
    IN  [registered |-> TRUE,
         name |-> extract_app_name(contents).val,
         ecosystem |-> "elixir",
         version |-> IF IsSemver(version_str) THEN VersionParse(version_str)
                     ELSE DefaultElixirVersion,
         path |-> path]

\* GoLoader::finalize for one candidate.
GoProject(path, contents) ==
    [registered |-> TRUE,
     name |-> go_module_name(contents).val,
     ecosystem |-> "go",
     version |-> GoVersion,
     path |-> path]

\* The loop of MixExsRewriter::rewrite: the lines to write, each with "\n".
MixExsNewLine(line, new_version) ==
    LET trimmed == Trim(line)
    IN  IF trimmed # <<>> /\ trimmed[1] = "version:" /\ Find(line, "version:") > 0
        THEN SubSeq(line, 1, Find(line, "version:") - 1)
                 \o <<"version:", " ", "\"", new_version, "\"", ",", "\n">>
        ELSE line \o <<"\n">>

MixExsNewLines(contents, new_version) ==
    LET ls == Lines(contents)
    IN  [i \in 1..Len(ls) |-> MixExsNewLine(ls[i], new_version)]

\* GoModRewriter::rewrite: writeln! of every line read.
GoModNewLines(contents) ==
    LET ls == Lines(contents)
    IN  [i \in 1..Len(ls) |-> ls[i] \o <<"\n">>]

NewLines(p, contents) ==
    IF p.ecosystem = "elixir" THEN MixExsNewLines(contents, VersionToString(p.version))
    ELSE GoModNewLines(contents)

\* ChangeList::add_path
AddPath(cl, path) == Append(cl, path)

----------------------------------------------------------------------------
(* Specification SpecDiscovery: a loader's finalize over the candidates    *)
(* process_index_item recorded                                             *)

MaxCandidates == 2

NoLoader == [pc |-> "idle"]
DiscoveryIdle == loader = NoLoader

MixExsOf(app_line, version_line) ==
    Render(<< <<"def project do">> >> \o app_line \o version_line \o << <<"end">> >>,
           <<"\n">>, TRUE)

MixExsContents ==
    { MixExsOf(<< <<"  ", "app:", " ", ":", "web", ",">> >>,
               << <<"  ", "version:", " ", "\"", "1.0.0", "\"", ",">> >>),
      MixExsOf(<< <<"  ", "app:", " ", ":", "api", ",">> >>,
               << <<"  ", "version:", " ", "\"", "one", "\"", ",">> >>),
      MixExsOf(<< <<"  ", "app:", " ", ":", "lib", ",">> >>, <<>>),
      MixExsOf(<<>>, << <<"  ", "version:", " ", "\"", "1.0.0", "\"", ",">> >>) }

GoModOf(module_line) ==
    Render(module_line \o << <<>>, <<"go", " ", "1.22">> >>, <<"\n">>, TRUE)

GoModContents ==
    { GoModOf(<< <<"module", " ", "example.com/api">> >>),
      GoModOf(<< <<"module", " ", "example.com/web">> >>),
      GoModOf(<<>>) }

\* What a candidate's manifest is when finalize comes to it: a file that
\* cannot be opened, one whose read fails, or a readable text.
CandidateFiles(ecosystem) ==
    LET texts == IF ecosystem = "elixir" THEN MixExsContents ELSE GoModContents
        some == CHOOSE t \in texts : TRUE
    IN  {[file |-> FileOf(t), read |-> "Ok"] : t \in texts}
            \cup {[file |-> Absent, read |-> "Ok"], [file |-> FileOf(some), read |-> "Err"]}

CandidatePath(ecosystem, k) ==
    IF ecosystem = "elixir" THEN "apps/" \o ToString(k) \o "/mix.exs"
    ELSE "services/" \o ToString(k) \o "/go.mod"

InitDiscovery ==
    \E ecosystem \in {"elixir", "go"} :
        \E files \in SeqsUpTo(CandidateFiles(ecosystem), MaxCandidates) :
            /\ files # <<>>
            /\ loader = [pc |-> "loop", ecosystem |-> ecosystem, candidates |-> files,
                         i |-> 1, graph |-> <<>>, set |-> <<>>, result |-> "none"]

\* The name finalize extracts from a manifest text.
CandidateName(ecosystem, contents) ==
    IF ecosystem = "elixir" THEN extract_app_name(contents) ELSE go_module_name(contents)

\* One iteration of finalize's loop: open, read, extract the name (each
\* failure returns the error from finalize), then register the project, set
\* its version and prefix and push its rewriter.
FinalizeCandidate ==
    /\ loader.pc = "loop"
    /\ loader.i <= Len(loader.candidates)
    /\ LET c == loader.candidates[loader.i]
           path == CandidatePath(loader.ecosystem, loader.i)
           name == CandidateName(loader.ecosystem, c.file.data)
           r == try_add_project(loader.graph, {}, name.val)
           fields == IF loader.ecosystem = "elixir" THEN ElixirProject(path, c.file.data)
                     ELSE GoProject(path, c.file.data)
       IN  loader' =
               IF ~c.file.exists \/ c.read = "Err" \/ ~name.some
               THEN [loader EXCEPT !.pc = "done", !.result = "Err"]
               ELSE [loader EXCEPT
                        !.i = @ + 1,
                        !.graph = AttachRewriter(r.graph, r.ident, name.val),
                        !.set = IF r.ident.some THEN Append(@, fields) ELSE @]
    /\ DiscoveryFrame

\* The loop is over: Ok(()).
FinalizeReturn ==
    /\ loader.pc = "loop"
    /\ loader.i > Len(loader.candidates)
    /\ loader' = [loader EXCEPT !.pc = "done", !.result = "Ok"]
    /\ DiscoveryFrame

----------------------------------------------------------------------------
(* Specification SpecRewrite: a manifest is discovered, its project's      *)
(* version is bumped in memory, and the project's rewriter is run          *)

RewriteIdle ==
    /\ disk = Absent
    /\ tmp = Absent
    /\ proj = NoProj
    /\ changes = <<>>
    /\ rw = [pc |-> "idle"]

InitRewrite ==
    /\ \E path \in {MixExsPath, GoModPath} :
           /\ disk \in {FileOf(c) : c \in IF path = MixExsPath THEN MixExsFiles ELSE GoModFiles}
           /\ rw = [pc |-> "indexed", path |-> path, result |-> "none", calls |-> 0,
                    before |-> Absent, contents |-> Absent, chunks |-> <<>>, written |-> 0]
    /\ tmp = Absent
    /\ proj = NoProj
    /\ changes = <<>>

\* finalize: the candidate is parsed and its project registered; a manifest
\* without an app name (module name) makes finalize return the error.
LoaderFinalize ==
    /\ rw.pc = "indexed"
    /\ LET name == IF EcosystemOf(rw.path) = "elixir" THEN extract_app_name(disk.data)
                   ELSE go_module_name(disk.data)
       IN  IF name.some
           THEN /\ proj' = IF EcosystemOf(rw.path) = "elixir"
                           THEN ElixirProject(rw.path, disk.data)
                           ELSE GoProject(rw.path, disk.data)
                /\ rw' = [rw EXCEPT !.pc = "loaded"]
           ELSE /\ proj' = proj
                /\ rw' = [rw EXCEPT !.pc = "discovery_failed", !.result = "Err"]
    /\ UNCHANGED <<disk, tmp, changes>>
    /\ RewriteFrame

\* prepare: bump_scheme.apply(&mut proj.version)
ApplyBump(scheme) ==
    /\ rw.pc = "loaded"
    /\ BumpSchemeApply(scheme, proj.version) \in VersionDomain
    /\ proj' = [proj EXCEPT !.version = BumpSchemeApply(scheme, @)]
    /\ rw' = [rw EXCEPT !.pc = "bumped"]
    /\ UNCHANGED <<disk, tmp, changes>>
    /\ RewriteFrame

CanRewrite == rw.pc \in {"loaded", "bumped", "returned"} /\ rw.calls < MaxRewrites

\* rewrite, up to the atomic write: the file is opened and read, the new
\* lines are computed, and AtomicFile::write creates its temporary file.
RewriteRead ==
    /\ CanRewrite
    /\ disk.exists
    /\ rw' = [rw EXCEPT !.pc = "writing", !.result = "none", !.calls = @ + 1,
                        !.before = disk, !.contents = disk,
                        !.chunks = NewLines(proj, disk.data), !.written = 0]
    /\ tmp' = FileOf(<<>>)
    /\ UNCHANGED <<disk, proj, changes>>
    /\ RewriteFrame

\* File::open or the read fails: atry! returns the error at once.
RewriteReadFails ==
    /\ CanRewrite
    /\ rw' = [rw EXCEPT !.pc = "returned", !.result = "Err", !.calls = @ + 1,
                        !.before = disk, !.contents = Absent,
                        !.chunks = <<>>, !.written = 0]
    /\ UNCHANGED <<disk, tmp, proj, changes>>
    /\ RewriteFrame

\* The chunk written over the manifest itself, not to a temporary file.
WriteInPlace(d, t, chunk) ==
    [disk |-> FileOf(t.data \o chunk), tmp |-> FileOf(t.data \o chunk)]

\* AtomicFile::write hands the closure the temporary file: what is written
\* goes there, the manifest is not touched.
StageChunk(d, t, chunk) ==
    [disk |-> d, tmp |-> FileOf(t.data \o chunk)]

\* One write of the closure reaches the file: the next line.
WriteChunk ==
    /\ rw.pc = "writing"
    /\ rw.written < Len(rw.chunks)
    /\ LET after == StageChunk(disk, tmp, rw.chunks[rw.written + 1])
       IN  disk' = after.disk /\ tmp' = after.tmp
    /\ rw' = [rw EXCEPT !.written = @ + 1]
    /\ UNCHANGED <<proj, changes>>
    /\ RewriteFrame

\* The path recorded only when the write succeeded.
RecordedIfOk(cl, path, r) == IF r = "Ok" THEN AddPath(cl, path) ELSE cl

\* changes.add_path(&self.repo_path) comes before the match on the result.
Recorded(cl, path, r) == AddPath(cl, path)

\* A write, the sync or the rename fails: the temporary file is dropped and
\* rewrite returns the error.
WriteFails ==
    /\ rw.pc = "writing"
    /\ tmp' = Absent
    /\ changes' = Recorded(changes, rw.path, "Err")
    /\ rw' = [rw EXCEPT !.pc = "returned", !.result = "Err"]
    /\ UNCHANGED <<disk, proj>>
    /\ RewriteFrame

\* Everything is written: the temporary file is renamed over the manifest.
CommitRename ==
    /\ rw.pc = "writing"
    /\ rw.written = Len(rw.chunks)
    /\ disk' = tmp
    /\ tmp' = Absent
    /\ changes' = Recorded(changes, rw.path, "Ok")
    /\ rw' = [rw EXCEPT !.pc = "returned", !.result = "Ok"]
    /\ UNCHANGED proj
    /\ RewriteFrame

\* The process is interrupted or crashes during the write.
Interrupt ==
    /\ rw.pc = "writing"
    /\ rw' = [rw EXCEPT !.pc = "killed"]
    /\ UNCHANGED <<disk, tmp, proj, changes>>
    /\ RewriteFrame

----------------------------------------------------------------------------
(* manifest.rs: ReleaseManifest, ProjectRelease and the signature *)

SCHEMA_VERSION == "1.0"

\* The tag name formatted with the prefix whether it is empty or not.
ProjectReleaseNewPrefixed(name, ecosystem, previous_version, new_version, bump_type, changelog, prefix) ==
    [name |-> name, ecosystem |-> ecosystem, previous_version |-> previous_version,
     new_version |-> new_version, bump_type |-> bump_type, changelog |-> changelog,
     tag_name |-> prefix \o "/v" \o new_version,
     prefix |-> prefix]

\* ProjectRelease::new
ProjectReleaseNew(name, ecosystem, previous_version, new_version, bump_type, changelog, prefix) ==
    [name |-> name, ecosystem |-> ecosystem, previous_version |-> previous_version,
     new_version |-> new_version, bump_type |-> bump_type, changelog |-> changelog,
     tag_name |-> IF prefix = "" THEN "v" \o new_version
                  ELSE prefix \o "/v" \o new_version,
     prefix |-> prefix]

\* ReleaseManifest::new, at the time created_at
ReleaseManifestNew(base_branch, created_by, created_at) ==
    [schema_version |-> SCHEMA_VERSION, created_at |-> created_at,
     created_by |-> created_by, base_branch |-> base_branch,
     releases |-> <<>>, signature |-> NoneStr]

\* .collect::<Vec<_>>().join(sep)
RECURSIVE Join(_, _)
Join(strs, sep) ==
    IF strs = <<>> THEN ""
    ELSE IF Len(strs) = 1 THEN strs[1]
    ELSE strs[1] \o sep \o Join(Tail(strs), sep)

\* The payload with each release's tag name in it.
signature_payload_with_tag(m) ==
    m.schema_version \o ":" \o m.created_at \o ":" \o m.created_by \o ":"
        \o m.base_branch \o ":"
        \o Join([i \in 1..Len(m.releases) |->
                     m.releases[i].name \o "@" \o m.releases[i].new_version
                         \o "#" \o m.releases[i].tag_name], ",")

\* ReleaseManifest::signature_payload
signature_payload(m) ==
    m.schema_version \o ":" \o m.created_at \o ":" \o m.created_by \o ":"
        \o m.base_branch \o ":"
        \o Join([i \in 1..Len(m.releases) |->
                     m.releases[i].name \o "@" \o m.releases[i].new_version], ",")

\* HMAC-SHA256 as an ideal MAC: a value determined by the key and the message
\* and different for different keys or messages; hex::encode of it.
HmacSha256(key, msg) == <<"HMAC-SHA256", key, msg>>
HexEncode(mac) == "hex[" \o mac[2] \o "][" \o mac[3] \o "]"

compute_hmac_signature(payload, secret) ==
    "sha256=" \o HexEncode(HmacSha256(secret, payload))

\* sign that leaves a manifest that already has a signature as it is.
SignedUnlessSigned(m, secret) ==
    IF m.signature.some THEN m
    ELSE [m EXCEPT !.signature =
              SomeStr(compute_hmac_signature(signature_payload(m), secret))]

\* ReleaseManifest::sign: the signature is cleared, the payload built and the
\* new signature stored.
Signed(m, secret) ==
    LET cleared == [m EXCEPT !.signature = NoneStr]
    IN  [cleared EXCEPT !.signature =
             SomeStr(compute_hmac_signature(signature_payload(cleared), secret))]

----------------------------------------------------------------------------
(* Specification SpecManifest: releases are added to a manifest and the    *)
(* manifest is signed, in any order                                        *)

BaseBranches == {"main", "develop"}
Authors == {"ci-bot"}
Timestamps == {"2026-01-01T00:00:00Z"}
Secrets == {"secret-one", "secret-two"}

ReleasePool ==
    { ProjectReleaseNew("web", "npm", "1.0.0", "1.1.0", "minor", "Changes", "packages/web"),
      ProjectReleaseNew("web", "npm", "1.0.0", "2.0.0", "major", "Changes", "packages/web"),
      ProjectReleaseNew("api", "cargo", "0.1.0", "0.1.1", "patch", "Fixes", "") }

ManifestIdle == manifest = [schema_version |-> "none"] /\ lastOp = [op |-> "idle"]

InitManifest ==
    /\ manifest \in {ReleaseManifestNew(b, a, t) :
                         b \in BaseBranches, a \in Authors, t \in Timestamps}
    /\ lastOp = [op |-> "new"]

\* ReleaseManifest::add_release, by the producer of the manifest.
AddRelease(release) ==
    /\ lastOp.op \notin {"idle", "from_json"}
    /\ Len(manifest.releases) < MaxReleases
    /\ manifest' = [manifest EXCEPT !.releases = Append(@, release)]
    /\ lastOp' = [op |-> "add_release"]
    /\ ManifestFrame

Sign(secret) ==
    /\ lastOp.op \notin {"idle", "from_json"}
    /\ manifest' = Signed(manifest, secret)
    /\ lastOp' = [op |-> "sign", secret |-> secret, prior |-> manifest.signature]
    /\ ManifestFrame

----------------------------------------------------------------------------
(* Specification SpecRelease: a ProjectRelease is constructed for a prefix *)
(* and a new version                                                       *)

TagPrefixes == {"", "packages/core", "apps/web"}

\* ProjectRelease::new called by the code that fills a manifest.
NewProjectRelease(prefix, v) ==
    /\ lastOp.op = "new"
    /\ lastOp' = [op |-> "release_new", prefix |-> prefix, new_version |-> VersionToString(v),
                  release |-> ProjectReleaseNew("core", "cargo", "1.0.0", VersionToString(v),
                                                "major", "Changelog", prefix)]
    /\ UNCHANGED manifest
    /\ ManifestFrame

----------------------------------------------------------------------------
(* Specification SpecLoaded: a manifest is built and signed, saved, and     *)
(* read back with from_json from a file anyone could have rewritten.  The   *)
(* fields are Strings: serde accepts any text in them.                      *)

JsonAuthors == {"ci", "ci:bot"}
JsonBranches == {"main", "bot:main"}

JsonReleases ==
    { ProjectReleaseNew("web", "npm", "1.0.0", "1.1.0", "minor", "Changes", "packages/web"),
      ProjectReleaseNew("api", "cargo", "0.1.0", "0.1.1", "patch", "Fixes", ""),
      ProjectReleaseNew("web@1.1.0,api", "cargo", "0.1.0", "0.1.1", "patch", "Fixes", ""),
      [ProjectReleaseNew("web", "cargo", "0.9.0", "1.1.0", "major", "Other", "apps/web")
           EXCEPT !.tag_name = "v9.9.9"] }

\* The manifests a JSON file can hold, but for the signature.
JsonManifests ==
    { [schema_version |-> SCHEMA_VERSION, created_at |-> t, created_by |-> a,
       base_branch |-> b, releases |-> rs, signature |-> NoneStr] :
          t \in Timestamps, a \in JsonAuthors, b \in JsonBranches,
          rs \in SeqsUpTo(JsonReleases, MaxReleases) }

InitLoaded ==
    /\ manifest \in {ReleaseManifestNew(b, a, t) :
                         b \in JsonBranches, a \in JsonAuthors, t \in Timestamps}
    /\ lastOp = [op |-> "new"]

\* ReleaseManifest::from_json of the saved file: every field is what the file
\* says; the file carries the signature that was saved.
FromJson(m) ==
    /\ lastOp.op = "sign"
    /\ manifest' = [m EXCEPT !.signature = manifest.signature]
    /\ lastOp' = [op |-> "from_json", secret |-> lastOp.secret, saved |-> manifest]
    /\ ManifestFrame

----------------------------------------------------------------------------
(* prepare.rs: a prepare run.  The session, the repository and the version  *)
(* type are collaborators: a call on them returns one of the results its    *)
(* signature allows.                                                        *)

NoRun == [pc |-> "idle"]
NoWorkingCopy == [commits |-> <<>>]

PrepareIdle == prep = NoRun /\ wc = NoWorkingCopy

\* The projects of the repository, in discovery order, with their prefixes.
PrepNames == <<"common", "app">>
PrepIdents == 1..Len(PrepNames)
PrefixOf(id) == IF id = 1 THEN "" ELSE "apps/app"

\* What the command line can give for --bump and for --project.
BumpArgs == {"none", "auto", "major bump", "bogus"}
ProjectArgs ==
    { <<>>,
      << <<"app", ":", "major bump">> >>,
      << <<"common", ":", "bogus">>, <<"app", ":", "minor bump">> >>,
      << <<"app">> >> }

\* BumpRecommendation::as_str
RecommendationAsStr(r) ==
    CASE r = "Major" -> "major bump"
      [] r = "Minor" -> "minor bump"
      [] r = "Patch" -> "micro bump"
      [] OTHER -> "no bump"

\* The histories analyze_histories can return for a project.
HistoryPool ==
    { <<>>,
      << <<"fix", ":", " ", "correct bug">> >>,
      << <<"docs", ":", " ", "update README">> >>,
      << <<"feat", "!", ":", " ", "remove Y">>, <<"docs", ":", " ", "update README">> >> }

\* The run() of prepare.rs chooses the mode from its arguments.
ModeOf(bump, no_tui, ci, project) ==
    IF ci THEN "ci"
    ELSE IF project # <<>> THEN "per_project"
    ELSE IF no_tui \/ bump = "auto" THEN "auto"
    ELSE IF bump = "none" \/ bump = "manual" THEN "wizard"
    ELSE "global"

NewRun ==
    [pc |-> "start", mode |-> "none", bump |-> "none", push |-> FALSE,
     github_release |-> FALSE, bump_specs |-> {}, strategy |-> "none",
     result |-> "none", ended_at |-> "none", dirty |-> "unchecked", dirty_log |-> "none",
     ai_enabled |-> FALSE, selected |-> {},
     histories |-> [id \in PrepIdents |-> <<>>],
     version |-> [id \in PrepIdents |-> <<1, 0, 0>>],
     i |-> 1, n_prepared |-> 0, prepared |-> <<>>,
     changes |-> <<>>, changelog_paths |-> <<>>, entries |-> <<>>, steps |-> <<>>,
     before |-> [manifests |-> <<>>, changelogs |-> <<>>]]

\* A CHANGELOG.md is a sequence of blocks, the header and one block a version
\* section; a block is a sequence of tokens.
ChangelogHeader == <<"# Changelog", "\n\n">>
SectionMark == "## ["

\* CategorizedCommit::format_for_changelog
format_for_changelog(c) ==
    "- " \o (IF c.scope.some THEN "**" \o c.scope.val \o "**: " ELSE "")
         \o c.message \o (IF c.breaking THEN " [BREAKING]" ELSE "")

\* ChangelogEntry::new(version), add_commits(categorized) and to_markdown():
\* the section of a version, its commits one line each.
EntryToMarkdown(version, cs) ==
    <<SectionMark, version, "]">> \o [k \in 1..Len(cs) |-> format_for_changelog(cs[k])]

IsVersionSection(block) == block # <<>> /\ block[1] = SectionMark

\* changelog_generator::generate_changelog: the header, the new section, then
\* the existing sections as they are.
generate_changelog(version, cs, existing) ==
    IF existing # <<>> /\ existing[1] = ChangelogHeader
    THEN <<ChangelogHeader, EntryToMarkdown(version, cs)>> \o Tail(existing)
    ELSE <<ChangelogHeader, EntryToMarkdown(version, cs)>> \o existing

\* What polish_changelog_with_ai can return: an error or a text.
PolishedPool ==
    { <<>>, <<"Improved release notes">>, <<SectionMark, "2.0.0", "]", "- Improved notes">> }
PolishOutcomes ==
    {[ok |-> FALSE, text |-> <<>>]} \cup {[ok |-> TRUE, text |-> t] : t \in PolishedPool}

\* The entry left empty when polishing fails.
FinalChangelogEntryOrNothing(ai_enabled, polish, draft) ==
    IF ai_enabled THEN (IF polish.ok THEN polish.text ELSE <<>>) ELSE draft

\* Lines 309-324: the polished entry, or the draft when polishing is off or
\* fails.
FinalChangelogEntry(ai_enabled, polish, draft) ==
    IF ai_enabled THEN (IF polish.ok THEN polish.text ELSE draft) ELSE draft

\* Lines 338-357: the content written to CHANGELOG.md.
FinalContent(version, cs, existing, ai_enabled, final_entry) ==
    IF ai_enabled /\ final_entry # <<>>
    THEN <<ChangelogHeader,
           IF IsVersionSection(final_entry) THEN final_entry
           ELSE EntryToMarkdown(version, cs)>> \o existing
    ELSE generate_changelog(version, cs, existing)

\* The CHANGELOG.md files a run can find: none, one with an earlier release,
\* one that already has a section for 2.0.0.
PriorChangelogs ==
    { Absent,
      FileOf(<<ChangelogHeader, <<SectionMark, "1.0.0", "]", "- first release">> >>),
      FileOf(<<ChangelogHeader, <<SectionMark, "2.0.0", "]", "- remove Y [BREAKING]">>,
               <<SectionMark, "1.0.0", "]", "- first release">> >>) }

ManifestPathOf(id) == IF id = 1 THEN "mix.exs" ELSE "apps/app/mix.exs"
ChangelogPathOf(prefix) == IF prefix = "" THEN "CHANGELOG.md" ELSE prefix \o "/CHANGELOG.md"

InitPrepare ==
    /\ prep = NewRun
    /\ \E prior \in PriorChangelogs :
           wc = [manifests |-> [id \in PrepIdents |-> "1.0.0"],
                 changelogs |-> [id \in PrepIdents |-> prior],
                 commits |-> <<>>, tags |-> {}, pushed |-> "nothing",
                 github_releases |-> {}]

\* The run ends: Err(..), Ok(0) or Ok(1).
Returned(p, result) == [p EXCEPT !.pc = "done", !.result = result, !.ended_at = p.pc]

\* A step that changes the working copy or the Git state is noted.
Noted(p, step) == [p EXCEPT !.steps = Append(@, step)]

\* split(':') of one --project argument.
SplitColon(spec) == SelectSeq(spec, LAMBDA t : t # ":")

BumpSpecsOf(project) ==
    {<<project[k][1], project[k][3]>> : k \in 1..Len(project)}

\* run(): the mode is chosen; per-project mode first parses its arguments.
Run(bump, no_tui, ci, push, github_release, project) ==
    /\ prep.pc = "start"
    /\ LET mode == ModeOf(bump, no_tui, ci, project)
           entered == [prep EXCEPT !.pc = "initialize", !.mode = mode,
                                   !.before = [manifests |-> wc.manifests,
                                               changelogs |-> wc.changelogs]]
       IN  prep' =
               CASE mode = "ci" ->
                        [entered EXCEPT !.push = push, !.github_release = github_release]
                 [] mode = "per_project" ->
                        IF \E k \in 1..Len(project) : Len(SplitColon(project[k])) # 2
                        THEN Returned(entered, "Err")
                        ELSE [entered EXCEPT !.bump_specs = BumpSpecsOf(project)]
                 [] OTHER -> [entered EXCEPT !.bump = bump]
    /\ UNCHANGED wc
    /\ PrepareFrame

\* AppSession::initialize_default()
InitializeSession(ok) ==
    /\ prep.pc = "initialize"
    /\ prep' = IF ok THEN [prep EXCEPT !.pc = "check_dirty"] ELSE Returned(prep, "Err")
    /\ UNCHANGED wc
    /\ PrepareFrame

\* The log level of the message about uncommitted changes.
DirtyLevel(mode) == IF mode = "wizard" THEN "info" ELSE "warn"

\* sess.repo.check_if_dirty(&[]): an error, no dirty path, or a dirty path.
CheckIfDirty(outcome) ==
    /\ prep.pc = "check_dirty"
    /\ prep' =
           CASE outcome = "Err" -> Returned(prep, "Err")
             [] outcome = "None" -> [prep EXCEPT !.pc = "query", !.dirty = "clean"]
             [] outcome = "Some" ->
                    IF prep.mode = "ci"
                    THEN Returned([prep EXCEPT !.dirty = "dirty"], "Err")
                    ELSE [prep EXCEPT !.pc = "query", !.dirty = "dirty",
                                      !.dirty_log = DirtyLevel(prep.mode)]
    /\ UNCHANGED wc
    /\ PrepareFrame


\* sess.graph().query(q): an error, no project, or the projects.
Query(outcome) ==
    /\ prep.pc = "query"
    /\ prep' =
           CASE outcome = "Err" -> Returned(prep, "Err")
             [] outcome = "Empty" -> Returned(prep, "Ok0")
             [] outcome = "Idents" -> [prep EXCEPT !.pc = "histories"]
    /\ UNCHANGED wc
    /\ PrepareFrame

\* sess.analyze_histories(): an error, or the commits of every project.
AnalyzeHistories(ok, histories, ai_enabled) ==
    /\ prep.pc = "histories"
    /\ prep' =
           IF ~ok THEN Returned(prep, "Err")
           ELSE [prep EXCEPT !.histories = histories,
                             !.ai_enabled = (prep.mode = "ci" /\ ai_enabled),
                             !.pc = IF prep.mode = "wizard" THEN "wizard" ELSE "bump",
                             !.selected = PrepIdents]
    /\ UNCHANGED wc
    /\ PrepareFrame

WizardStrategies == {"Auto", "Major", "Minor", "Patch"}

\* wizard::run: the projects with commits are offered; run_wizard_ui returns
\* an error, a cancellation, or the selected projects and the strategy.
RunWizardUi(outcome, selected, strategy) ==
    /\ prep.pc = "wizard"
    /\ LET offered == {id \in PrepIdents : Len(prep.histories[id]) > 0}
       IN  prep' =
               IF offered = {} THEN Returned(prep, "Ok0")
               ELSE CASE outcome = "Err" -> Returned(prep, "Err")
                      [] outcome = "Cancelled" -> Returned(prep, "Ok1")
                      [] outcome = "Confirmed" ->
                             [prep EXCEPT !.pc = "bump", !.strategy = strategy,
                                          !.selected = selected \cap offered]
    /\ UNCHANGED wc
    /\ PrepareFrame

SpecOf(p, name) == {pair \in p.bump_specs : pair[1] = name}

\* The scheme text the loop of a mode uses for a project, "skip" when the
\* loop goes on to the next project without a bump.
BumpSchemeText(p, id) ==
    LET n_commits == Len(p.histories[id])
        suggested == RecommendationAsStr(analyze_commit_messages(p.histories[id]).recommendation)
        NoBumpSkips(text) == IF text = "no bump" THEN "skip" ELSE text
    IN  CASE p.mode = "global" -> IF n_commits = 0 THEN "skip" ELSE p.bump
          [] p.mode = "ci" -> IF n_commits = 0 THEN "skip" ELSE NoBumpSkips(suggested)
          [] p.mode = "auto" ->
                 IF n_commits = 0 THEN "skip"
                 ELSE NoBumpSkips(IF p.bump \in {"none", "auto"} THEN suggested ELSE p.bump)
          [] p.mode = "per_project" ->
                 IF SpecOf(p, PrepNames[id]) = {} THEN "skip"
                 ELSE (CHOOSE pair \in SpecOf(p, PrepNames[id]) : TRUE)[2]
          [] p.mode = "wizard" ->
                 IF id \notin p.selected THEN "skip"
                 ELSE CASE p.strategy = "Auto" -> NoBumpSkips(suggested)
                        [] p.strategy = "Major" -> "major bump"
                        [] p.strategy = "Minor" -> "minor bump"
                        [] p.strategy = "Patch" -> "micro bump"

\* PreparedProject of CI mode.
PreparedProject(id, old, new, text, msgs) ==
    [id |-> id, name |-> PrepNames[id], prefix |-> PrefixOf(id),
     old_version |-> VersionToString(old), new_version |-> VersionToString(new),
     bump_type |-> text, commit_messages |-> msgs]

\* The turn with a project whose scheme does not parse or apply passed over.
BumpProjectBestEffort(apply_ok) ==
    /\ prep.pc = "bump"
    /\ prep.i <= Len(PrepNames)
    /\ LET id == prep.i
           text == BumpSchemeText(prep, id)
           scheme == ParseBumpScheme(text)
           old == prep.version[id]
           new == BumpSchemeApply(scheme, old)
       IN  prep' =
               IF text = "skip" \/ scheme = "Err" \/ ~apply_ok THEN [prep EXCEPT !.i = @ + 1]
               ELSE [prep EXCEPT !.i = @ + 1, !.version[id] = new,
                                 !.n_prepared = @ + 1,
                                 !.prepared =
                                     IF prep.mode = "ci"
                                     THEN Append(@, PreparedProject(id, old, new, text,
                                                                    prep.histories[id]))
                                     ELSE @]
    /\ UNCHANGED wc
    /\ PrepareFrame

\* One turn of the loop over the projects: the scheme is parsed and applied
\* to the project's version in memory.
BumpProject(apply_ok) ==
    /\ prep.pc = "bump"
    /\ prep.i <= Len(PrepNames)
    /\ LET id == prep.i
           text == BumpSchemeText(prep, id)
           scheme == ParseBumpScheme(text)
           old == prep.version[id]
           new == BumpSchemeApply(scheme, old)
       IN  prep' =
               IF text = "skip" THEN [prep EXCEPT !.i = @ + 1]
               ELSE IF scheme = "Err" \/ ~apply_ok THEN Returned(prep, "Err")
               ELSE [prep EXCEPT !.i = @ + 1, !.version[id] = new,
                                 !.n_prepared = @ + 1,
                                 !.prepared =
                                     IF prep.mode = "ci"
                                     THEN Append(@, PreparedProject(id, old, new, text,
                                                                    prep.histories[id]))
                                     ELSE @]
    /\ UNCHANGED wc
    /\ PrepareFrame

\* After the loop: nothing prepared ends the run with Ok(0).
BumpsDone ==
    /\ prep.pc = "bump"
    /\ prep.i > Len(PrepNames)
    /\ prep' = IF prep.n_prepared = 0 THEN Returned(prep, "Ok0")
               ELSE [prep EXCEPT !.pc = "rewrite", !.i = 1]
    /\ UNCHANGED wc
    /\ PrepareFrame


\* sess.rewrite(), project by project: the rewriter replaces the manifest by
\* one that declares the version in memory and records the path, or fails
\* and leaves the manifest as it was.
RewriteProject(ok) ==
    /\ prep.pc = "rewrite"
    /\ prep.i <= Len(PrepNames)
    /\ IF ok
       THEN /\ wc' = [wc EXCEPT !.manifests[prep.i] = VersionToString(prep.version[prep.i])]
            /\ prep' = Noted([prep EXCEPT !.i = @ + 1,
                                          !.changes = AddPath(@, ManifestPathOf(prep.i))],
                             "rewrite")
       ELSE /\ wc' = wc
            /\ prep' = Returned(prep, "Err")
    /\ PrepareFrame

\* sess.rewrite() returned the ChangeList: the interactive modes report the
\* modified files and end, CI mode goes on to the changelogs.
RewriteDone ==
    /\ prep.pc = "rewrite"
    /\ prep.i > Len(PrepNames)
    /\ prep' = IF prep.mode = "ci" THEN [prep EXCEPT !.pc = "changelogs", !.i = 1]
               ELSE Returned(prep, "Ok0")
    /\ UNCHANGED wc
    /\ PrepareFrame

\* std::fs::write: the file written, not written, or left cut short.
FsWrite(file, content, outcome) ==
    CASE outcome = "Ok" -> FileOf(content)
      [] outcome = "ErrTruncated" -> FileOf(<<>>)
      [] OTHER -> file

\* One turn of the changelog loop of CI mode (lines 293-380).
WriteChangelog(polish, read_ok, outcome) ==
    /\ prep.pc = "changelogs"
    /\ prep.i <= Len(prep.prepared)
    /\ LET project == prep.prepared[prep.i]
           cs == categorize_commits(project.commit_messages)
           draft == EntryToMarkdown(project.new_version, cs)
           final_entry == FinalChangelogEntry(prep.ai_enabled, polish, draft)
           file == wc.changelogs[project.id]
           existing == IF read_ok /\ file.exists THEN file.data ELSE <<>>
           content == FinalContent(project.new_version, cs, existing,
                                   prep.ai_enabled, final_entry)
           turn == [id |-> project.id, fell_back |-> prep.ai_enabled /\ ~polish.ok,
                    draft |-> draft, final_entry |-> final_entry,
                    read |-> file.exists /\ read_ok, write |-> outcome]
           entered == [prep EXCEPT !.entries = Append(@, turn)]
       IN  IF cs = <<>>
           THEN /\ prep' = [prep EXCEPT !.i = @ + 1]
                /\ wc' = wc
           ELSE /\ wc' = IF outcome = "DirErr" THEN wc
                         ELSE [wc EXCEPT !.changelogs[project.id] =
                                             FsWrite(file, content, outcome)]
                /\ prep' = IF outcome = "Ok"
                           THEN Noted([entered EXCEPT !.i = @ + 1,
                                                      !.changelog_paths =
                                                          Append(@, ChangelogPathOf(project.prefix))],
                                      "changelog")
                           ELSE Returned(entered, "Err")
    /\ PrepareFrame

\* format_commit_message
format_commit_message(prepared) ==
    IF Len(prepared) = 1
    THEN "chore(release): " \o prepared[1].name \o " v" \o prepared[1].new_version
    ELSE "chore(release): release " \o ToString(Len(prepared)) \o " packages"

\* create_commit with its failure logged and the run going on to the tags.
CreateCommitBestEffort(ok) ==
    /\ prep.pc = "changelogs"
    /\ prep.i > Len(prep.prepared)
    /\ IF ok
       THEN /\ wc' = [wc EXCEPT !.commits =
                                    Append(@, [message |-> format_commit_message(prep.prepared),
                                               paths |-> prep.changes \o prep.changelog_paths])]
            /\ prep' = Noted([prep EXCEPT !.pc = "tags"], "commit")
       ELSE /\ wc' = wc
            /\ prep' = [prep EXCEPT !.pc = "tags"]
    /\ PrepareFrame

\* sess.repo.create_commit(&commit_message, &all_changed_paths)
CreateCommit(ok) ==
    /\ prep.pc = "changelogs"
    /\ prep.i > Len(prep.prepared)
    /\ IF ok
       THEN /\ wc' = [wc EXCEPT !.commits =
                                    Append(@, [message |-> format_commit_message(prep.prepared),
                                               paths |-> prep.changes \o prep.changelog_paths])]
            /\ prep' = Noted([prep EXCEPT !.pc = "tags"], "commit")
       ELSE /\ wc' = wc
            /\ prep' = Returned(prep, "Err")
    /\ PrepareFrame

\* The (name, new_version) pairs handed to create_release_tags.
ProjectVersions(prepared) ==
    {<<prepared[k].name, prepared[k].new_version>> : k \in 1..Len(prepared)}

\* sess.repo.create_release_tags(&project_versions): all the tags or none.
\* Without --push the run ends here.
CreateReleaseTags(ok) ==
    /\ prep.pc = "tags"
    /\ IF ok
       THEN /\ wc' = [wc EXCEPT !.tags = @ \cup ProjectVersions(prep.prepared)]
            /\ prep' = IF prep.push THEN Noted([prep EXCEPT !.pc = "push"], "tags")
                       ELSE Returned(Noted(prep, "tags"), "Ok0")
       ELSE /\ wc' = wc
            /\ prep' = Returned(prep, "Err")
    /\ PrepareFrame

\* push_to_remote: git push, then git push --tags.  Without --github-release
\* the run ends here.
PushToRemote(outcome) ==
    /\ prep.pc = "push"
    /\ wc' = [wc EXCEPT !.pushed = CASE outcome = "Ok" -> "commits and tags"
                                     [] outcome = "ErrTags" -> "commits"
                                     [] OTHER -> @]
    /\ prep' = IF outcome # "Ok" THEN Returned(prep, "Err")
               ELSE IF prep.github_release
                    THEN Noted([prep EXCEPT !.pc = "github_releases", !.i = 1], "push")
                    ELSE Returned(Noted(prep, "push"), "Ok0")
    /\ PrepareFrame

\* One turn of the loop over create_github_release: a failure is a warning.
CreateGithubRelease(ok) ==
    /\ prep.pc = "github_releases"
    /\ prep.i <= Len(prep.prepared)
    /\ wc' = IF ok THEN [wc EXCEPT !.github_releases = @ \cup {prep.prepared[prep.i].name}]
             ELSE wc
    /\ prep' = Noted([prep EXCEPT !.i = @ + 1], "github_release")
    /\ PrepareFrame

GithubReleasesDone ==
    /\ prep.pc = "github_releases"
    /\ prep.i > Len(prep.prepared)
    /\ prep' = Returned(prep, "Ok0")
    /\ UNCHANGED wc
    /\ PrepareFrame

----------------------------------------------------------------------------
(* status.rs: a status run.  It acts on the working copy a prepare run     *)
(* acts on.                                                                *)

NewStatus ==
    [pc |-> "start", mode |-> "status", format |-> "none", use_tui |-> FALSE,
     result |-> "none", ended_at |-> "none", idents |-> <<>>,
     histories |-> [id \in PrepIdents |-> <<>>],
     version |-> [id \in PrepIdents |-> <<1, 0, 0>>],
     i |-> 1, projects |-> <<>>, stdout |-> <<>>,
     before |-> [wc |-> NoWorkingCopy, version |-> <<>>]]

\* A working copy with a release made earlier, or without one.
InitStatus ==
    /\ prep = NewStatus
    /\ \E prior \in PriorChangelogs, released \in BOOLEAN :
           wc = [manifests |-> [id \in PrepIdents |-> "1.0.0"],
                 changelogs |-> [id \in PrepIdents |-> prior],
                 commits |-> IF released THEN << <<"chore", ":", " ", "release">> >> ELSE <<>>,
                 tags |-> IF released THEN {"v1.0.0"} ELSE {},
                 pushed |-> "nothing", github_releases |-> {}]

OutputFormats == {"None", "Table", "Text", "Json"}

\* run(format, no_tui), entered.
StatusRun(format, no_tui) ==
    /\ prep.pc = "start"
    /\ prep.mode = "status"
    /\ prep' = [prep EXCEPT !.pc = "initialize", !.format = format, !.use_tui = ~no_tui,
                            !.before = [wc |-> wc, version |-> prep.version]]
    /\ UNCHANGED wc
    /\ PrepareFrame

\* AppSession::initialize_default()
StatusInitialize(ok) ==
    /\ prep.pc = "initialize"
    /\ prep.mode = "status"
    /\ prep' = IF ok THEN [prep EXCEPT !.pc = "query"] ELSE Returned(prep, "Err")
    /\ UNCHANGED wc
    /\ PrepareFrame

\* sess.graph().query(q): an error, or the ids in discovery order.
StatusQuery(outcome) ==
    /\ prep.pc = "query"
    /\ prep.mode = "status"
    /\ prep' =
           CASE outcome = "Err" -> Returned(prep, "Err")
             [] outcome = "Empty" -> [prep EXCEPT !.pc = "histories", !.idents = <<>>]
             [] outcome = "Idents" -> [prep EXCEPT !.pc = "histories", !.idents = <<1, 2>>]
    /\ UNCHANGED wc
    /\ PrepareFrame

\* sess.analyze_histories(), then the format is defaulted and the TUI
\* fallback announced.
StatusAnalyze(ok, histories, tty) ==
    /\ prep.pc = "histories"
    /\ prep.mode = "status"
    /\ LET format == IF prep.format = "None" THEN "Table" ELSE prep.format
           use_tui == format = "Table" /\ tty /\ prep.use_tui
       IN  prep' =
               IF ~ok THEN Returned(prep, "Err")
               ELSE [prep EXCEPT !.histories = histories, !.format = format,
                                 !.use_tui = use_tui, !.pc = "report"]
    /\ UNCHANGED wc
    /\ PrepareFrame

\* What release_info and lookup_project give for a project.
ReleaseInfos == {"Err", "None", "Age0", "Aged"}

\* The line the text formats print for a project.
StatusLine(name, n, info) ==
    CASE info = "None" -> <<name, n, "since start of history">>
      [] info = "Aged" -> <<name, n, "no more than">>
      [] info = "Age0" /\ n = 0 -> <<name, n, "no relevant commits">>
      [] OTHER -> <<name, n, "relevant commits">>

\* A turn that, besides reporting, applies a patch bump to the project and
\* rewrites its manifest.
StatusProjectBumping(info, summaries_ok) ==
    /\ prep.pc = "report"
    /\ prep.i <= Len(prep.idents)
    /\ prep' = [prep EXCEPT !.i = @ + 1, !.version[prep.idents[prep.i]] = <<1, 0, 1>>]
    /\ wc' = [wc EXCEPT !.manifests[prep.idents[prep.i]] = "1.0.1"]
    /\ PrepareFrame

\* One turn of the loop over the ids, in either match arm: the project and
\* its history are looked up and the project's data or lines are produced.
StatusProject(info, summaries_ok) ==
    /\ prep.pc = "report"
    /\ prep.i <= Len(prep.idents)
    /\ LET id == prep.idents[prep.i]
           name == PrepNames[id]
           n == Len(prep.histories[id])
       IN  prep' =
               IF info = "Err" \/ (n > 0 /\ ~summaries_ok) THEN Returned(prep, "Err")
               ELSE IF prep.format = "Json"
               THEN [prep EXCEPT !.i = @ + 1,
                                 !.projects = Append(@, <<name, n, prep.histories[id]>>)]
               ELSE [prep EXCEPT !.i = @ + 1,
                                 !.stdout = Append(@, StatusLine(name, n, info))
                                                \o prep.histories[id]]
    /\ UNCHANGED wc
    /\ PrepareFrame

\* After the loop: the JSON document is printed; Ok(0).
StatusReturn ==
    /\ prep.pc = "report"
    /\ prep.i > Len(prep.idents)
    /\ prep' = Returned(IF prep.format = "Json"
                        THEN [prep EXCEPT !.stdout = <<prep.projects>>] ELSE prep, "Ok0")
    /\ UNCHANGED wc
    /\ PrepareFrame

----------------------------------------------------------------------------
(* github/client.rs: send_with_retry *)

MAX_RETRIES == 3
INITIAL_BACKOFF_MS == 1000
MAX_BACKOFF_MS == 30000

NoRequest == [pc |-> "idle"]
ClientIdle == http = NoRequest

\* Option<u64>
NoneNat == [some |-> FALSE, val |-> 0]
SomeNat(n) == [some |-> TRUE, val |-> n]

Min(a, b) == IF a <= b THEN a ELSE b

is_success(status) == status >= 200 /\ status <= 299

\* The statuses with 404 retried as well.
is_retryable_status_or_404(status) == status \in {404, 429, 500, 502, 503, 504}

is_retryable_status(status) == status \in {429, 500, 502, 503, 504}

\* calculate_backoff, in milliseconds.  The product is a u64: with the
\* attempts of the loop, 0..MAX_RETRIES, it is at most 8000 and does not wrap.
calculate_backoff(attempt, base_ms) == Min(base_ms * 2 ^ attempt, MAX_BACKOFF_MS)

\* extract_retry_after: Duration::from_secs of the header's number, in
\* milliseconds.
extract_retry_after(response) ==
    IF response.retry_after.some THEN SomeNat(response.retry_after.val * 1000) ELSE NoneNat

\* extract_retry_after(&response).unwrap_or_else(|| calculate_backoff(..))
RetryDelay(response, attempt) ==
    IF extract_retry_after(response).some THEN extract_retry_after(response).val
    ELSE calculate_backoff(attempt, INITIAL_BACKOFF_MS)

\* What request.send() can give: a response with a status and perhaps a
\* Retry-After header in seconds, or an error that is retryable (timeout,
\* connect, request) or not.
Statuses == {200, 201, 304, 404, 422, 429, 500, 502, 503, 504}
RetryAfterSecs == {5, 60}
SendOutcomes ==
    {[kind |-> "response", status |-> st, retry_after |-> ra, retryable |-> FALSE] :
         st \in Statuses, ra \in {NoneNat} \cup {SomeNat(n) : n \in RetryAfterSecs}}
    \cup {[kind |-> "error", status |-> 0, retry_after |-> NoneNat, retryable |-> r] :
              r \in BOOLEAN}

NoOutcome == [kind |-> "none", status |-> 0, retry_after |-> NoneNat, retryable |-> FALSE]

InitClient ==
    http = [pc |-> "loop", attempt |-> 0, sent |-> 0, last |-> NoOutcome,
            slept |-> <<>>, computed |-> <<>>, result |-> "none", returned |-> NoOutcome]

\* One turn of the loop: the request is built and sent; the response or the
\* error is returned, or the thread sleeps and the loop goes on.
Send(outcome) ==
    /\ http.pc = "loop"
    /\ http.attempt <= MAX_RETRIES
    /\ LET sent == [http EXCEPT !.sent = @ + 1, !.last = outcome]
           backoff == calculate_backoff(http.attempt, INITIAL_BACKOFF_MS)
       IN  http' =
               IF outcome.kind = "response"
               THEN IF is_success(outcome.status) \/ ~is_retryable_status(outcome.status)
                    THEN [sent EXCEPT !.pc = "done", !.result = "Ok", !.returned = outcome]
                    ELSE IF http.attempt < MAX_RETRIES
                    THEN [sent EXCEPT !.attempt = @ + 1,
                                      !.slept = Append(@, RetryDelay(outcome, http.attempt)),
                                      !.computed = IF extract_retry_after(outcome).some THEN @
                                                   ELSE Append(@, backoff)]
                    ELSE [sent EXCEPT !.pc = "done", !.result = "Ok", !.returned = outcome]
               ELSE IF http.attempt < MAX_RETRIES /\ outcome.retryable
                    THEN [sent EXCEPT !.attempt = @ + 1, !.slept = Append(@, backoff),
                                      !.computed = Append(@, backoff)]
                    ELSE [sent EXCEPT !.pc = "done", !.result = "Err", !.returned = outcome]
    /\ ClientFrame

\* The Err(..) after the loop (lines 276-292) is never reached: the turn with
\* attempt = MAX_RETRIES returns in each of its branches.

----------------------------------------------------------------------------
(* Specifications *)

InitMerge == InitMergeCase /\ AnalyzerIdle /\ GraphIdle /\ RewriteIdle /\ ManifestIdle /\ PrepareIdle /\ VersionIdle /\ DiscoveryIdle /\ ClientIdle
NextMerge == ApplyMerge
SpecMerge == InitMerge /\ [][NextMerge]_vars

InitAnalyzerSpec == InitAnalyzer /\ MergeIdle /\ GraphIdle /\ RewriteIdle /\ ManifestIdle /\ PrepareIdle /\ VersionIdle /\ DiscoveryIdle /\ ClientIdle
NextAnalyzer == AnalyzeCommitMessages
SpecAnalyzer == InitAnalyzerSpec /\ [][NextAnalyzer]_vars

NextCategorize == CategorizeCommits
SpecCategorize == InitAnalyzerSpec /\ [][NextCategorize]_vars

InitGraphSpec == InitGraph /\ MergeIdle /\ AnalyzerIdle /\ RewriteIdle /\ ManifestIdle /\ PrepareIdle /\ VersionIdle /\ DiscoveryIdle /\ ClientIdle
NextGraph ==
    \/ \E name \in ProjectNames : TryAddProject(name)
    \/ \E a \in ProjectIds(projects), b \in ProjectIds(projects) : AddInternalDep(a, b)
    \/ InitializeDefault
    \/ AppNew
SpecGraph == InitGraphSpec /\ [][NextGraph]_vars

InitRewriteSpec == InitRewrite /\ MergeIdle /\ AnalyzerIdle /\ GraphIdle /\ ManifestIdle /\ PrepareIdle /\ VersionIdle /\ DiscoveryIdle /\ ClientIdle
NextRewrite ==
    \/ LoaderFinalize
    \/ \E scheme \in {"major", "minor", "patch"} : ApplyBump(scheme)
    \/ RewriteRead
    \/ RewriteReadFails
    \/ WriteChunk
    \/ WriteFails
    \/ CommitRename
    \/ Interrupt
SpecRewrite == InitRewriteSpec /\ [][NextRewrite]_vars

InitManifestSpec == InitManifest /\ MergeIdle /\ AnalyzerIdle /\ GraphIdle /\ RewriteIdle /\ PrepareIdle /\ VersionIdle /\ DiscoveryIdle /\ ClientIdle
NextManifest ==
    \/ \E release \in ReleasePool : AddRelease(release)
    \/ \E secret \in Secrets : Sign(secret)
SpecManifest == InitManifestSpec /\ [][NextManifest]_vars

NextRelease == \E prefix \in TagPrefixes, v \in VersionDomain : NewProjectRelease(prefix, v)
SpecRelease == InitManifestSpec /\ [][NextRelease]_vars

InitLoadedSpec == InitLoaded /\ MergeIdle /\ AnalyzerIdle /\ GraphIdle /\ RewriteIdle /\ PrepareIdle /\ VersionIdle /\ DiscoveryIdle /\ ClientIdle
NextLoaded ==
    \/ \E release \in JsonReleases : AddRelease(release)
    \/ \E secret \in Secrets : Sign(secret)
    \/ \E m \in JsonManifests : FromJson(m)
SpecLoaded == InitLoadedSpec /\ [][NextLoaded]_vars

InitDiscoverySpec ==
    InitDiscovery /\ MergeIdle /\ AnalyzerIdle /\ GraphIdle /\ RewriteIdle /\ ManifestIdle
        /\ PrepareIdle /\ VersionIdle /\ ClientIdle
NextDiscovery == FinalizeCandidate \/ FinalizeReturn
SpecDiscovery == InitDiscoverySpec /\ [][NextDiscovery]_vars

InitBumpSpec ==
    InitBump /\ MergeIdle /\ AnalyzerIdle /\ GraphIdle /\ RewriteIdle /\ ManifestIdle
        /\ PrepareIdle /\ DiscoveryIdle /\ ClientIdle
NextBump == \E text \in SchemeTexts : BumpVersion(text)
SpecBump == InitBumpSpec /\ [][NextBump]_vars

InitClientSpec ==
    InitClient /\ MergeIdle /\ AnalyzerIdle /\ GraphIdle /\ RewriteIdle /\ ManifestIdle
        /\ PrepareIdle /\ VersionIdle /\ DiscoveryIdle
NextClient == \E outcome \in SendOutcomes : Send(outcome)
SpecClient == InitClientSpec /\ [][NextClient]_vars

InitStatusSpec ==
    InitStatus /\ MergeIdle /\ AnalyzerIdle /\ GraphIdle /\ RewriteIdle /\ ManifestIdle
        /\ VersionIdle /\ DiscoveryIdle /\ ClientIdle
NextStatus ==
    \/ \E format \in OutputFormats, no_tui \in BOOLEAN : StatusRun(format, no_tui)
    \/ \E ok \in BOOLEAN : StatusInitialize(ok)
    \/ \E outcome \in {"Err", "Empty", "Idents"} : StatusQuery(outcome)
    \/ \E ok \in BOOLEAN, histories \in [PrepIdents -> HistoryPool], tty \in BOOLEAN :
           StatusAnalyze(ok, histories, tty)
    \/ \E info \in ReleaseInfos, summaries_ok \in BOOLEAN : StatusProject(info, summaries_ok)
    \/ StatusReturn
SpecStatus == InitStatusSpec /\ [][NextStatus]_vars

InitPrepareSpec ==
    InitPrepare /\ MergeIdle /\ AnalyzerIdle /\ GraphIdle /\ RewriteIdle /\ ManifestIdle
        /\ VersionIdle /\ DiscoveryIdle /\ ClientIdle
NextPrepare ==
    \/ \E bump \in BumpArgs, no_tui \in BOOLEAN, ci \in BOOLEAN, push \in BOOLEAN,
          github_release \in BOOLEAN, project \in ProjectArgs :
           Run(bump, no_tui, ci, push, github_release, project)
    \/ \E ok \in BOOLEAN : InitializeSession(ok)
    \/ \E outcome \in {"Err", "None", "Some"} : CheckIfDirty(outcome)
    \/ \E outcome \in {"Err", "Empty", "Idents"} : Query(outcome)
    \/ \E ok \in BOOLEAN, histories \in [PrepIdents -> HistoryPool], ai_enabled \in BOOLEAN :
           AnalyzeHistories(ok, histories, ai_enabled)
    \/ \E outcome \in {"Err", "Cancelled", "Confirmed"}, selected \in SUBSET PrepIdents,
          strategy \in WizardStrategies : RunWizardUi(outcome, selected, strategy)
    \/ \E apply_ok \in BOOLEAN : BumpProject(apply_ok)
    \/ BumpsDone
    \/ \E ok \in BOOLEAN : RewriteProject(ok)
    \/ RewriteDone
    \/ \E polish \in PolishOutcomes, read_ok \in BOOLEAN,
          outcome \in {"Ok", "DirErr", "Err", "ErrTruncated"} :
           WriteChangelog(polish, read_ok, outcome)
    \/ \E ok \in BOOLEAN : CreateCommit(ok)
    \/ \E ok \in BOOLEAN : CreateReleaseTags(ok)
    \/ \E outcome \in {"Ok", "ErrPush", "ErrTags"} : PushToRemote(outcome)
    \/ \E ok \in BOOLEAN : CreateGithubRelease(ok)
    \/ GithubReleasesDone
SpecPrepare == InitPrepareSpec /\ [][NextPrepare]_vars

----------------------------------------------------------------------------
(* Properties of BumpRecommendation::merge and analyze_commit_messages *)

Rank(r) == CASE r = "Major" -> 3 [] r = "Minor" -> 2 [] r = "Patch" -> 1 [] OTHER -> 0

Higher(a, b) == IF Rank(a) >= Rank(b) THEN a ELSE b

\* The highest recommendation of a finite set of recommendations, None if empty.
Highest(S) == IF S = {} THEN "None" ELSE CHOOSE r \in S : \A q \in S : Rank(r) >= Rank(q)

\* C3: merge(Major, x) = Major, merge(None, None) = None, merge is commutative
\* and associative, and the result is the higher operand in the order
\* Major > Minor > Patch > None.
C3_MergeLaws ==
    mergeCase.phase = "merged" =>
        /\ (mergeCase.x = "Major" => mergeCase.xy = "Major")
        /\ (mergeCase.x = "None" /\ mergeCase.y = "None" => mergeCase.xy = "None")
        /\ mergeCase.xy = mergeCase.yx
        /\ mergeCase.xy_z = mergeCase.x_yz
        /\ mergeCase.xy = Higher(mergeCase.x, mergeCase.y)

C3_Witness ==
    /\ mergeCase.phase = "merged"
    /\ mergeCase.x = "Patch" /\ mergeCase.y = "Minor" /\ mergeCase.z = "None"
    /\ mergeCase.xy = "Minor" /\ mergeCase.xy_z = "Minor"

\* The recommendation the classification rule gives a parsed commit: Major with
\* a `!` before the colon or a BREAKING CHANGE footer, else by declared type.
ExpectedContribution(m) ==
    IF HasBang(m) \/ HasBreakingFooter(m) THEN "Major"
    ELSE IF m[1] = "feat" THEN "Minor"
    ELSE IF m[1] = "fix" \/ m[1] = "perf" THEN "Patch"
    ELSE "None"

\* C4: the analysis of a single conventional commit recommends Major when the
\* commit has a breaking marker whatever its type, otherwise Minor for feat,
\* Patch for fix or perf, and None for any other type.
C4_Classification ==
    (analysis # NoAnalysis /\ Len(messages) = 1 /\ ParseOk(messages[1])) =>
        analysis.recommendation = ExpectedContribution(messages[1])

C4_Witness ==
    /\ analysis # NoAnalysis
    /\ messages = << <<"docs", "!", ":", " ", "drop page">> >>
    /\ analysis.recommendation = "Major"

Permuted(ms, f) == [i \in 1..Len(ms) |-> ms[f[i]]]

\* C5: the recommendation of a history is the highest of the recommendations
\* of its commits taken one by one, it is the same for every reordering of the
\* history, and it is Major when any commit of the history is breaking.
C5_HighestOrderFree ==
    analysis # NoAnalysis =>
        /\ analysis.recommendation =
               Highest({analyze_commit_messages(<<messages[i]>>).recommendation :
                            i \in 1..Len(messages)})
        /\ \A f \in Permutations(1..Len(messages)) :
               analyze_commit_messages(Permuted(messages, f)).recommendation
                   = analysis.recommendation
        /\ ((\E i \in 1..Len(messages) :
                 ParseOk(messages[i]) /\ CommitBreaking(messages[i]))
               => analysis.recommendation = "Major")

C5_Witness ==
    /\ analysis # NoAnalysis
    /\ messages = << <<"feat", "!", ":", " ", "remove Y">>,
                     <<"feat", ":", " ", "add X">>,
                     <<"fix", ":", " ", "correct bug">> >>
    /\ analysis.recommendation = "Major"

----------------------------------------------------------------------------
(* Properties of the project graph and its release order *)

\* The ids reachable from the ids of S by one or more dependency edges.
RECURSIVE ReachableFrom(_, _)
ReachableFrom(ps, S) ==
    LET more == S \cup UNION {DepIds(ps, n) : n \in S}
    IN  IF more = S THEN S ELSE ReachableFrom(ps, more)

DependsTransitively(ps, a, b) == b \in ReachableFrom(ps, DepIds(ps, a))

Cyclic(ps) == \E n \in ProjectIds(ps) : DependsTransitively(ps, n, n)

Occurs(seq, x) == \E i \in 1..Len(seq) : seq[i] = x

Pos(seq, x) == CHOOSE i \in 1..Len(seq) : seq[i] = x

\* C1: in the release order built from toposorted(), whatever the discovery
\* order, every project comes after each project it depends on; and every
\* acyclic graph gets a release order (initialization fails on cycles only).
C1_DependenciesFirst ==
    /\ graphPhase = "shown" =>
           \A a \in ProjectIds(projects) : \A b \in DepIds(projects, a) :
               /\ Occurs(release_order, projects[a].user_facing_name)
               /\ Occurs(release_order, projects[b].user_facing_name)
               /\ Pos(release_order, projects[b].user_facing_name)
                      < Pos(release_order, projects[a].user_facing_name)
    /\ graphPhase = "error" => Cyclic(projects)

\* app is discovered before common and depends on it.
C1_Witness ==
    /\ graphPhase = "shown"
    /\ Len(projects) = 2
    /\ projects[1].user_facing_name = "app"
    /\ projects[2].user_facing_name = "common"
    /\ projects[1].internal_deps = <<2>>
    /\ release_order = <<"common", "app">>

\* C2: with a cycle among the dependency edges the operation ends in an error
\* and no release order is produced; a release order that is produced holds
\* every project of the graph exactly once.
C2_CycleFails ==
    /\ (Cyclic(projects) /\ graphPhase # "building") =>
           (graphPhase = "error" /\ release_order = <<>>)
    /\ graphPhase = "shown" =>
           /\ Len(release_order) = Len(projects)
           /\ {release_order[i] : i \in 1..Len(release_order)} = RegisteredNames(projects)

\* common -> app -> web -> common.
C2_Witness ==
    /\ graphPhase = "error"
    /\ Len(projects) = 3
    /\ projects[1].internal_deps = <<2>>
    /\ projects[2].internal_deps = <<3>>
    /\ projects[3].internal_deps = <<1>>
    /\ release_order = <<>>

----------------------------------------------------------------------------
(* Properties of the rewriters *)

\* The lines of a file with their endings kept.
RECURSIVE RawLinesFrom(_, _, _, _)
RawLinesFrom(c, i, cur, acc) ==
    IF i > Len(c) THEN (IF cur = <<>> THEN acc ELSE Append(acc, cur))
    ELSE IF c[i] = "\n" THEN RawLinesFrom(c, i + 1, <<>>, Append(acc, Append(cur, "\n")))
    ELSE RawLinesFrom(c, i + 1, Append(cur, c[i]), acc)

RawLines(c) == RawLinesFrom(c, 1, <<>>, <<>>)

DeclaresVersion(raw) == VersionOfLine(SelectSeq(raw, LAMBDA t : t # "\n")).some

\* A version line with the text between its quotes replaced, all else kept.
WithValue(raw, value) ==
    LET open == Find(raw, "\"")
        close == open + Find(SubSeq(raw, open + 1, Len(raw)), "\"")
    IN  SubSeq(raw, 1, open) \o <<value>> \o SubSeq(raw, close, Len(raw))

\* The file with the value of its version field replaced and nothing else.
OnlyVersionReplaced(c, value) ==
    LET raws == RawLines(c)
        declaring == {i \in 1..Len(raws) : DeclaresVersion(raws[i])}
        first == CHOOSE i \in declaring : \A j \in declaring : i <= j
    IN  IF declaring = {} THEN c
        ELSE Flatten([i \in 1..Len(raws) |->
                         IF i = first THEN WithValue(raws[i], value) ELSE raws[i]])

RewriteReturned(result) == rw.pc = "returned" /\ rw.result = result

\* The manifest declared a version V1 and the project is now at another, V2.
BumpedFromDeclared ==
    /\ proj # NoProj
    /\ extract_version(rw.before.data).some
    /\ IsSemver(extract_version(rw.before.data).val)
    /\ VersionParse(extract_version(rw.before.data).val) # proj.version

\* C6: a successful rewrite of a manifest that declares a version, after a
\* bump, leaves the file as it was but for the value of the version field.
C6_OnlyVersionValueChanges ==
    (RewriteReturned("Ok") /\ BumpedFromDeclared) =>
        disk.data = OnlyVersionReplaced(rw.before.data, VersionToString(proj.version))

\* C7: while a rewrite is writing, after it was interrupted and after it
\* failed, the manifest holds exactly the content it had when the rewrite
\* began; after a successful rewrite it holds the complete new content.
C7_ManifestNeverPartial ==
    /\ rw.pc \in {"writing", "killed"} => disk = rw.before
    /\ RewriteReturned("Err") => disk = rw.before
    /\ RewriteReturned("Ok") => disk = FileOf(Flatten(rw.chunks))

\* Interrupted with the temporary file half written.
C7_Witness ==
    /\ rw.pc = "killed"
    /\ 0 < rw.written /\ rw.written < Len(rw.chunks)
    /\ tmp.exists /\ tmp.data # <<>> /\ tmp.data # Flatten(rw.chunks)
    /\ proj.version = <<1, 0, 1>>
    /\ disk = rw.before

\* C8 as stated: every call of rewrite that has returned has recorded the
\* manifest's path in the ChangeList.
C8_EveryCallRecords ==
    rw.pc = "returned" => Occurs(changes, rw.path)

\* C8 as amended: a call of rewrite that opened and read the manifest has
\* recorded the path when it returns, whether the write succeeded or failed
\* and whether the content changed; a call that could not open or read the
\* manifest returns an error, and there are never more records than calls.
C8_RecordsOnceRead ==
    /\ (rw.pc = "returned" /\ rw.contents.exists) =>
           (changes # <<>> /\ Last(changes) = rw.path)
    /\ (rw.pc = "returned" /\ ~rw.contents.exists) => rw.result = "Err"
    /\ rw.pc \in {"writing", "returned", "killed"} => Len(changes) <= rw.calls

\* The second rewrite changes nothing in the file and records the path again.
C8_Witness ==
    /\ RewriteReturned("Ok")
    /\ rw.calls = 2
    /\ disk = rw.before
    /\ changes = <<rw.path, rw.path>>

\* C9: a rewrite of a mix.exs that returns Ok leaves a manifest that declares
\* the project's in-memory version.
C9_RewrittenDeclaresVersion ==
    (RewriteReturned("Ok") /\ proj # NoProj /\ rw.path = MixExsPath) =>
        /\ extract_version(disk.data).some
        /\ extract_version(disk.data).val = VersionToString(proj.version)

----------------------------------------------------------------------------
(* Properties of the release manifest *)

RECURSIVE ReleaseList(_)
ReleaseList(rs) ==
    IF rs = <<>> THEN ""
    ELSE rs[1].name \o "@" \o rs[1].new_version
             \o (IF Len(rs) > 1 THEN "," ELSE "") \o ReleaseList(Tail(rs))

\* The canonical payload of the manifest as it is now.
CurrentPayload ==
    manifest.schema_version \o ":" \o manifest.created_at \o ":"
        \o manifest.created_by \o ":" \o manifest.base_branch \o ":"
        \o ReleaseList(manifest.releases)

\* C10: when the last call on the manifest was sign(secret), the stored
\* signature is "sha256=" followed by the hex of the HMAC-SHA256, under
\* secret, of the payload of the manifest's present fields and release list;
\* a prior signature over another payload or secret is gone.
C10_SignatureIsCurrent ==
    lastOp.op = "sign" =>
        /\ manifest.signature =
               SomeStr("sha256=" \o HexEncode(HmacSha256(lastOp.secret, CurrentPayload)))
        /\ \A old \in Secrets : \A n \in 0..Len(manifest.releases) :
               LET earlier == [manifest EXCEPT !.releases = SubSeq(@, 1, n),
                                               !.signature = NoneStr]
               IN  (old # lastOp.secret \/ n < Len(manifest.releases)) =>
                       manifest.signature # Signed(earlier, old).signature

\* Signed, a release added, signed again: the signature is a new one.
C10_Witness ==
    /\ lastOp.op = "sign"
    /\ lastOp.prior.some
    /\ lastOp.prior # manifest.signature
    /\ Len(manifest.releases) = 2
    /\ lastOp.prior.val =
           compute_hmac_signature("1.0:2026-01-01T00:00:00Z:ci-bot:main:web@1.1.0",
                                  lastOp.secret)

\* The name@version pairs of a release list, in order.
SignedReleases(rs) == [i \in 1..Len(rs) |-> <<rs[i].name, rs[i].new_version>>]

\* Two manifests differ in one of the fields the signature is to protect.
DifferInProtectedField(m1, m2) ==
    \/ m1.schema_version # m2.schema_version
    \/ m1.created_at # m2.created_at
    \/ m1.created_by # m2.created_by
    \/ m1.base_branch # m2.base_branch
    \/ SignedReleases(m1.releases) # SignedReleases(m2.releases)

\* The verifier's check: the signature recomputed with the secret is the one
\* the manifest carries.
Verifies(m, secret) ==
    m.signature = SomeStr(compute_hmac_signature(
                              signature_payload([m EXCEPT !.signature = NoneStr]), secret))

\* C11: a manifest read back that differs from the signed one in schema
\* version, timestamp, author, base branch or the name or new version of any
\* release (one added, removed or reordered included) has another canonical
\* payload than the signed one, so the signature it carries does not verify
\* under the secret, and signing it again gives another signature.
C11_MutationChangesPayload ==
    (lastOp.op = "from_json" /\ DifferInProtectedField(manifest, lastOp.saved)) =>
        /\ signature_payload(manifest) # signature_payload(lastOp.saved)
        /\ ~Verifies(manifest, lastOp.secret)
        /\ Signed(manifest, lastOp.secret).signature # lastOp.saved.signature

----------------------------------------------------------------------------
(* Properties of a prepare run *)

RunEnded(result) == prep.pc = "done" /\ prep.result = result

\* The files of the working copy are those the run found.
FilesAsBefore ==
    /\ wc.manifests = prep.before.manifests
    /\ wc.changelogs = prep.before.changelogs

\* C12: when a prepare run has ended with a fatal error, every manifest and
\* every changelog is as it was before the run and no release commit and no
\* release tag has been created.
C12_FatalErrorLeavesNoTrace ==
    RunEnded("Err") => (FilesAsBefore /\ wc.commits = <<>> /\ wc.tags = {})

InteractiveModes == {"global", "auto", "per_project", "wizard"}

\* No project's version was bumped and nothing was written, committed, tagged
\* or pushed.
NothingDone ==
    /\ \A id \in PrepIdents : prep.version[id] = <<1, 0, 0>>
    /\ FilesAsBefore
    /\ prep.steps = <<>>
    /\ wc.commits = <<>> /\ wc.tags = {} /\ wc.pushed = "nothing"

\* C13: when check_if_dirty has reported an uncommitted change, a CI mode run
\* has failed with nothing bumped, rewritten, written, committed or tagged;
\* a run in an interactive mode has logged a warning and has gone on.
C13_DirtyFailsCiWarnsInteractive ==
    prep.dirty = "dirty" =>
        /\ prep.mode = "ci" => (RunEnded("Err") /\ NothingDone)
        /\ prep.mode \in InteractiveModes =>
               (prep.dirty_log = "warn" /\ prep.ended_at # "check_dirty")

Count(doc, block) == Cardinality({k \in 1..Len(doc) : doc[k] = block})

\* The prepared projects whose CHANGELOG.md the run has written.
Written ==
    {k \in 1..Len(prep.prepared) :
         /\ Occurs(prep.changelog_paths, ChangelogPathOf(prep.prepared[k].prefix))
         /\ wc.changelogs[prep.prepared[k].id].exists
         /\ Len(wc.changelogs[prep.prepared[k].id].data) >= 2}

DocOf(k) == wc.changelogs[prep.prepared[k].id].data
PriorOf(k) == prep.before.changelogs[prep.prepared[k].id]

\* C14: two changelogs generated, without polished text, from the same
\* commits for the same version over the same prior content are the same
\* document; and when the prior content already had a section identical to
\* the new one, the generated document has that section once.
C14_ChangelogIdempotent ==
    /\ \A k \in Written, j \in Written :
           (/\ ~prep.ai_enabled
            /\ prep.prepared[k].commit_messages = prep.prepared[j].commit_messages
            /\ prep.prepared[k].new_version = prep.prepared[j].new_version
            /\ Len(DocOf(k)) = Len(DocOf(j))) => DocOf(k) = DocOf(j)
    /\ \A k \in Written :
           (PriorOf(k).exists /\ Count(PriorOf(k).data, DocOf(k)[2]) = 1) =>
               Count(DocOf(k), DocOf(k)[2]) = 1

\* The part of C13 that does not depend on the level of the message.
DirtyFailsCiOnly ==
    prep.dirty = "dirty" =>
        /\ prep.mode = "ci" => (RunEnded("Err") /\ NothingDone)
        /\ prep.mode \in InteractiveModes =>
               (prep.dirty_log # "none" /\ prep.ended_at # "check_dirty")

----------------------------------------------------------------------------
(* Properties of the version bump *)

\* The precedence of semantic versions without pre-release: major, then
\* minor, then patch.
VersionLess(a, b) ==
    \/ a[1] < b[1]
    \/ a[1] = b[1] /\ a[2] < b[2]
    \/ a[1] = b[1] /\ a[2] = b[2] /\ a[3] < b[3]

AppliedTo(text) == bumpCase.version[text] # NotApplied

\* C15: every scheme applied to a base version gives a greater version, the
\* major bump a greater one than the minor and the patch bump of the same
\* base, and the patch bump of 1.0.0 is 1.0.1.
C15_BumpMonotonic ==
    bumpCase.phase = "drawn" =>
        /\ \A text \in SchemeTexts :
               AppliedTo(text) => VersionLess(bumpCase.base, bumpCase.version[text])
        /\ \A text \in {"minor bump", "micro bump"} :
               (AppliedTo("major bump") /\ AppliedTo(text)) =>
                   VersionLess(bumpCase.version[text], bumpCase.version["major bump"])
        /\ (bumpCase.base = <<1, 0, 0>> /\ AppliedTo("micro bump")) =>
               bumpCase.version["micro bump"] = <<1, 0, 1>>

\* 1.2.2 bumped three ways.
C15_Witness ==
    /\ bumpCase.phase = "drawn"
    /\ bumpCase.base = <<1, 2, 2>>
    /\ bumpCase.version["major bump"] = <<2, 0, 0>>
    /\ bumpCase.version["minor bump"] = <<1, 3, 0>>
    /\ bumpCase.version["micro bump"] = <<1, 2, 3>>

----------------------------------------------------------------------------
(* Properties of try_add_project *)

NamesUnique(ps) ==
    \A i \in ProjectIds(ps), j \in ProjectIds(ps) :
        ps[i].user_facing_name = ps[j].user_facing_name => i = j

NRewriters(ps) ==
    LET RECURSIVE Sum(_)
        Sum(i) == IF i = 0 THEN 0 ELSE Len(ps[i].rewriters) + Sum(i - 1)
    IN  Sum(Len(ps))

\* A step that made a try_add_project call for a registered or an ignored
\* name returned None and left the nodes and their rewriters as they were.
RefusedCallAddsNothing ==
    (added' # added /\ (added'.name \in RegisteredNames(projects) \/ added'.name \in ignored))
        => /\ added'.ident = NoneId
           /\ Len(projects') = Len(projects)
           /\ NRewriters(projects') = NRewriters(projects)

IdsStable ==
    \A i \in ProjectIds(projects) :
        /\ i \in ProjectIds(projects')
        /\ projects'[i].user_facing_name = projects[i].user_facing_name

\* C16: at all times no two projects of the graph have the same name and
\* none has an ignored name; a try_add_project call for a registered or an
\* ignored name returns None, adds no node and attaches no rewriter; every
\* id keeps denoting the same project.
C16_RegistrationUnique ==
    /\ [](NamesUnique(projects) /\ RegisteredNames(projects) \cap ignored = {})
    /\ [][RefusedCallAddsNothing /\ IdsStable]_vars

\* Two projects registered, then a call for the first one's name refused,
\* with an ignored name in the configuration.
C16_Witness ==
    /\ Len(projects) = 2
    /\ ignored # {}
    /\ added = [name |-> projects[1].user_facing_name, ident |-> NoneId]
    /\ \A i \in ProjectIds(projects) : Len(projects[i].rewriters) = 1

----------------------------------------------------------------------------
(* Properties of the loaders' finalize *)

\* A candidate finalize can open and read and that names its project.
ValidCandidate(k) ==
    LET c == loader.candidates[k]
    IN  /\ c.file.exists
        /\ c.read = "Ok"
        /\ CandidateName(loader.ecosystem, c.file.data).some

NameOfCandidate(k) == CandidateName(loader.ecosystem, loader.candidates[k].file.data).val

\* The mix.exs candidates whose version is missing or is no semantic version.
VersionUnusable(k) ==
    LET text == extract_version(loader.candidates[k].file.data)
    IN  loader.ecosystem = "elixir" /\ (~text.some \/ ~IsSemver(text.val))

\* C17: finalize returns Ok whatever the candidates are, with every valid
\* candidate's project registered, and a project whose manifest only lacks
\* a usable version registered at the default version.
C17_DiscoveryNeverFails ==
    loader.pc = "done" =>
        /\ loader.result = "Ok"
        /\ \A k \in 1..Len(loader.candidates) :
               ValidCandidate(k) =>
                   /\ NameOfCandidate(k) \in RegisteredNames(loader.graph)
                   /\ VersionUnusable(k) =>
                          \E n \in 1..Len(loader.set) :
                              /\ loader.set[n].name = NameOfCandidate(k)
                              /\ loader.set[n].version = DefaultElixirVersion

\* The tolerant part: whenever finalize has come past a valid candidate, its
\* project is registered, at the default version if its version is unusable.
VersionFallsBack ==
    loader.pc # "idle" =>
        \A k \in 1..Len(loader.candidates) :
            (ValidCandidate(k) /\ (k < loader.i \/ loader.result = "Ok")) =>
                /\ NameOfCandidate(k) \in RegisteredNames(loader.graph)
                /\ VersionUnusable(k) =>
                       \E n \in 1..Len(loader.set) :
                           /\ loader.set[n].name = NameOfCandidate(k)
                           /\ loader.set[n].version = DefaultElixirVersion

----------------------------------------------------------------------------
(* Properties of analyze_commit_messages on messages that do not parse *)

Unparseable == {i \in 1..Len(messages) : ~ParseOk(messages[i])}
Parsed == {i \in 1..Len(messages) : ParseOk(messages[i])}

\* C18: the analysis is returned for every history; each message that is no
\* conventional commit adds one to other_count and nothing to the other
\* counters or to the recommendation, and the messages after it are analysed
\* as they would be without it.
C18_UnparseableCountsAsOther ==
    analysis # NoAnalysis =>
        /\ analysis.total_commits = Len(messages)
        /\ analysis.other_count =
               Cardinality(Unparseable)
                   + Cardinality({i \in Parsed : ExpectedContribution(messages[i]) = "None"})
        /\ analysis.feat_count + analysis.fix_count + analysis.breaking_count =
               Cardinality({i \in Parsed : ExpectedContribution(messages[i]) # "None"})
        /\ analysis.recommendation =
               Highest({ExpectedContribution(messages[i]) : i \in Parsed})

\* A message that does not parse, then a feature commit.
C18_Witness ==
    /\ analysis # NoAnalysis
    /\ messages = << <<"Initial commit">>, <<"feat", ":", " ", "add X">> >>
    /\ analysis.other_count = 1
    /\ analysis.feat_count = 1
    /\ analysis.recommendation = "Minor"

----------------------------------------------------------------------------
(* Properties of categorize_commits *)

\* The commit types that have a changelog category.
MappedTypes == {"feat", "fix", "perf", "refactor"}

Entries == {categorized.list[k] : k \in 1..Len(categorized.list)}

MarkedBreaking(m) == HasBang(m) \/ HasBreakingFooter(m)

\* C19 as stated: no commit of a type without a changelog category (chore,
\* docs, ci, test, style, build, or any other unmapped type) is in the result.
C19_UnmappedTypesOmitted ==
    categorized.returned =>
        \A e \in Entries : e.original[1] \in MappedTypes

\* C19 amended: a commit of a type without a changelog category is in the
\* result only if it is a breaking change, and then under Changed with the
\* breaking flag; without a breaking marker it is never in the result, and
\* every breaking commit is.
C19_UnmappedOmittedUnlessBreaking ==
    categorized.returned =>
        /\ \A e \in Entries :
               e.original[1] \notin MappedTypes =>
                   (MarkedBreaking(e.original) /\ e.breaking /\ e.category = "Changed")
        /\ \A i \in 1..Len(messages) :
               (ParseOk(messages[i]) /\ MarkedBreaking(messages[i])) =>
                   \E e \in Entries : e.original = messages[i] /\ e.breaking

\* A documentation commit dropped and a breaking documentation commit kept.
C19_Witness ==
    /\ categorized.returned
    /\ messages = << <<"docs", ":", " ", "update README">>, <<"docs", "!", ":", " ", "drop page">> >>
    /\ Len(categorized.list) = 1
    /\ categorized.list[1].message = "drop page"
    /\ categorized.list[1].category = "Changed"

\* C20: the returned list is in the order Added, Changed, Deprecated,
\* Removed, Fixed, Security, and entries of one category are in the order
\* their commits have in the input.
C20_SortedByCategoryStable ==
    categorized.returned =>
        LET unsorted == CategorizeLoop(<<>>, messages, 1)
            OfCategory(cs, c) == SelectSeq(cs, LAMBDA e : e.category = c)
        IN  /\ \A k \in 1..(Len(categorized.list) - 1) :
                   CategoryOrd(categorized.list[k].category)
                       <= CategoryOrd(categorized.list[k + 1].category)
            /\ \A c \in {"Added", "Changed", "Deprecated", "Removed", "Fixed", "Security"} :
                   OfCategory(categorized.list, c) = OfCategory(unsorted, c)

\* A refactoring, a feature and a performance commit: the feature first, the
\* two Changed entries in their input order.
C20_Witness ==
    /\ categorized.returned
    /\ messages = << <<"refactor", "(", "api", ")", ":", " ", "split module">>,
                     <<"feat", ":", " ", "add X">>, <<"perf", ":", " ", "faster walk">> >>
    /\ Len(categorized.list) = 3
    /\ categorized.list[1].category = "Added"
    /\ categorized.list[2].message = "split module"
    /\ categorized.list[3].message = "faster walk"

----------------------------------------------------------------------------
(* Properties of ProjectRelease::new *)

\* C21: the tag name of a constructed release is "v" and the new version for
\* an empty prefix, and the prefix, "/v" and the new version otherwise;
\* packages/core at 2.0.0 gives packages/core/v2.0.0.
C21_TagName ==
    lastOp.op = "release_new" =>
        /\ lastOp.prefix = "" => lastOp.release.tag_name = "v" \o lastOp.new_version
        /\ lastOp.prefix # "" =>
               lastOp.release.tag_name = lastOp.prefix \o "/v" \o lastOp.new_version
        /\ (lastOp.prefix = "packages/core" /\ lastOp.new_version = "2.0.0") =>
               lastOp.release.tag_name = "packages/core/v2.0.0"
        /\ (lastOp.prefix = "" /\ lastOp.new_version = "2.0.0") =>
               lastOp.release.tag_name = "v2.0.0"

C21_Witness ==
    /\ lastOp.op = "release_new"
    /\ lastOp.prefix = ""
    /\ lastOp.release.tag_name = "v2.0.0"

----------------------------------------------------------------------------
(* Properties of a status run *)

\* C22: from its start to its end, in every output format and whatever it
\* returns, a status run leaves the manifests, the changelogs, the commits
\* and the tags as they were and the projects at their versions.
C22_StatusReadOnly ==
    (prep.mode = "status" /\ prep.pc # "start") =>
        /\ wc = prep.before.wc
        /\ prep.version = prep.before.version

\* A JSON report of two projects, one with a pending fix commit.
C22_Witness ==
    /\ prep.mode = "status"
    /\ RunEnded("Ok0")
    /\ prep.format = "Json"
    /\ Len(prep.projects) = 2
    /\ prep.histories[2] = << <<"fix", ":", " ", "correct bug">> >>
    /\ wc.manifests[2] = "1.0.0"

----------------------------------------------------------------------------
(* Properties of send_with_retry *)

RetryableOutcome(o) ==
    \/ o.kind = "response" /\ o.status \in {429, 500, 502, 503, 504}
    \/ o.kind = "error" /\ o.retryable

\* C23: a call sends at most four requests; it goes on to another attempt
\* only after a response with status 429, 500, 502, 503 or 504 or after a
\* retryable error; when it has ended, it has returned the last response as
\* Ok or the last error as Err, and in fewer than four attempts only if that
\* one was not retryable.
C23_BoundedRetry ==
    http.pc # "idle" =>
        /\ http.sent <= 4
        /\ http.sent = http.attempt + (IF http.pc = "done" THEN 1 ELSE 0)
        /\ (http.pc = "loop" /\ http.sent > 0) => RetryableOutcome(http.last)
        /\ http.pc = "done" =>
               /\ http.returned = http.last
               /\ http.result = (IF http.last.kind = "response" THEN "Ok" ELSE "Err")
               /\ RetryableOutcome(http.last) => http.sent = MAX_RETRIES + 1

\* Three retries, then the fourth response, a 503, returned.
C23_Witness ==
    /\ http.pc = "done"
    /\ http.sent = 4
    /\ http.result = "Ok"
    /\ http.returned.status = 503

NonDecreasing(seq) == \A k \in 1..(Len(seq) - 1) : seq[k] <= seq[k + 1]

\* C24: every delay slept between two attempts is at most MAX_BACKOFF_MS,
\* and the delays computed without a Retry-After value never decrease.
C24_DelayCapped ==
    http.pc # "idle" =>
        /\ \A k \in 1..Len(http.slept) : http.slept[k] <= MAX_BACKOFF_MS
        /\ NonDecreasing(http.computed)

\* The computed part: a delay without a Retry-After value is
\* min(1000 * 2^attempt, 30000), and these never decrease.
BackoffCappedAndMonotone ==
    http.pc # "idle" =>
        /\ \A k \in 1..Len(http.computed) : http.computed[k] <= MAX_BACKOFF_MS
        /\ NonDecreasing(http.computed)

----------------------------------------------------------------------------
(* Properties of the changelog step of CI mode *)

Turns == {prep.entries[k] : k \in 1..Len(prep.entries)}

EndedInChangelogLoop ==
    RunEnded("Err") /\ prep.ended_at = "changelogs" /\ prep.i <= Len(prep.prepared)

\* C25: in a CI run with AI polishing, a turn whose polishing failed goes on
\* with the draft as the project's entry, and when its file is written the
\* file has the draft section and the run goes on; a run ends with an error
\* in the changelog loop only when the directory or the file could not be
\* written.
C25_PolishFailureFallsBack ==
    (prep.pc # "idle" /\ prep.mode = "ci") =>
        /\ \A e \in Turns :
               e.fell_back =>
                   /\ e.final_entry = e.draft
                   /\ e.write = "Ok" =>
                          /\ wc.changelogs[e.id].exists
                          /\ wc.changelogs[e.id].data[2] = e.draft
        /\ EndedInChangelogLoop => prep.entries[Len(prep.entries)].write # "Ok"

\* Polishing failed for a project; the release commit and the tags are made.
C25_Witness ==
    /\ prep.mode = "ci"
    /\ prep.ai_enabled
    /\ RunEnded("Ok0")
    /\ \E e \in Turns : e.fell_back /\ e.write = "Ok"
    /\ Len(wc.commits) = 1
    /\ wc.tags # {}

----------------------------------------------------------------------------
(* Properties of the bump loop of the prepare modes *)

SchemeModes == {"global", "auto", "per_project", "ci"}

SomethingWritten ==
    \/ ~FilesAsBefore
    \/ wc.commits # <<>>
    \/ wc.tags # {}

\* The project is one the run's mode bumps, and it is at the version its
\* scheme makes of the version it had.
BumpedInMemory(id) ==
    LET text == BumpSchemeText(prep, id)
    IN  text # "skip" =>
            /\ ParseBumpScheme(text) # "Err"
            /\ prep.version[id] = BumpSchemeApply(ParseBumpScheme(text), <<1, 0, 0>>)

\* C26: in global, auto, per-project and CI mode, whenever a manifest or a
\* changelog differs from what the run found, or a commit or a tag exists,
\* every project the run bumps has had its scheme parsed and applied in
\* memory; a run that ended with an error in the bump loop has written no
\* manifest, changelog, commit or tag.
C26_RewriteAfterAllBumps ==
    (prep.mode \in SchemeModes /\ prep.pc # "start") =>
        /\ SomethingWritten => \A id \in PrepIdents : BumpedInMemory(id)
        /\ (RunEnded("Err") /\ prep.ended_at = "bump") => ~SomethingWritten

\* The first project bumped in memory, the second one's bump failed.
C26_Witness ==
    /\ prep.mode \in SchemeModes
    /\ RunEnded("Err")
    /\ prep.ended_at = "bump"
    /\ prep.i = 2
    /\ prep.version[1] # <<1, 0, 0>>
    /\ wc.manifests[1] = "1.0.0"

----------------------------------------------------------------------------
(* Properties of the CHANGELOG.md files CI mode writes *)

Sections(doc) == SelectSeq(doc, IsVersionSection)

\* The file written in the turn has, after its header and its new section,
\* the sections the file had before the run, in their order.
PriorSectionsFollow(e) ==
    LET doc == wc.changelogs[e.id].data
    IN  /\ wc.changelogs[e.id].exists
        /\ Len(doc) >= 2
        /\ Sections(SubSeq(doc, 3, Len(doc))) = Sections(prep.before.changelogs[e.id].data)

\* C27: every CHANGELOG.md a CI run has written holds, after the new
\* section, all the sections it held before the run, unchanged and in the
\* same order, whether or not the existing file could be read.
C27_PriorContentKept ==
    (prep.pc # "idle" /\ prep.mode = "ci") =>
        \A e \in Turns :
            (e.write = "Ok" /\ prep.before.changelogs[e.id].exists) => PriorSectionsFollow(e)

\* The same for the files whose existing content was read.
PriorContentKeptWhenRead ==
    (prep.pc # "idle" /\ prep.mode = "ci") =>
        \A e \in Turns :
            (e.write = "Ok" /\ e.read) => PriorSectionsFollow(e)

----------------------------------------------------------------------------
(* Properties of the signature's scope *)

\* C28: a manifest read back that has the signed one's schema version,
\* timestamp, author, base branch and release names and new versions in the
\* same order, whatever the ecosystem, previous version, bump type,
\* changelog, tag name and prefix of its releases, gets the signed one's
\* signature under the same secret, and the signature it carries verifies.
C28_SignatureScope ==
    (lastOp.op = "from_json" /\ ~DifferInProtectedField(manifest, lastOp.saved)) =>
        /\ Signed(manifest, lastOp.secret).signature = lastOp.saved.signature
        /\ Verifies(manifest, lastOp.secret)

\* A release read back with another ecosystem, previous version, bump type,
\* changelog, tag name and prefix than the signed one.
C28_Witness ==
    /\ lastOp.op = "from_json"
    /\ ~DifferInProtectedField(manifest, lastOp.saved)
    /\ Len(manifest.releases) = 1
    /\ manifest.releases[1].ecosystem # lastOp.saved.releases[1].ecosystem
    /\ manifest.releases[1].previous_version # lastOp.saved.releases[1].previous_version
    /\ manifest.releases[1].bump_type # lastOp.saved.releases[1].bump_type
    /\ manifest.releases[1].changelog # lastOp.saved.releases[1].changelog
    /\ manifest.releases[1].tag_name # lastOp.saved.releases[1].tag_name
    /\ manifest.releases[1].prefix # lastOp.saved.releases[1].prefix
    /\ Verifies(manifest, lastOp.secret)

----------------------------------------------------------------------------
(* Properties of the order of the mutating steps of CI mode *)

StepOrder == <<"rewrite", "changelog", "commit", "tags", "push", "github_release">>

StepRank(step) == CHOOSE r \in 1..Len(StepOrder) : StepOrder[r] = step

StepCount(step) == Cardinality({k \in 1..Len(prep.steps) : prep.steps[k] = step})

\* The prepared projects whose commits give a changelog entry.
ChangelogsDue ==
    {k \in 1..Len(prep.prepared) :
        categorize_commits(prep.prepared[k].commit_messages) # <<>>}

\* The run is about to do, or has ended with an error in, the step at pc.
AtStep(pc) == prep.pc = pc \/ (prep.pc = "done" /\ prep.result = "Err" /\ prep.ended_at = pc)

RewriteSucceeded == StepCount("rewrite") = Len(PrepNames)

ChangelogsSucceeded ==
    /\ RewriteSucceeded
    /\ StepCount("changelog") = Cardinality(ChangelogsDue)

CommitSucceeded ==
    /\ ChangelogsSucceeded
    /\ StepCount("commit") = 1
    /\ Len(wc.commits) = 1

TagsSucceeded ==
    /\ CommitSucceeded
    /\ StepCount("tags") = 1
    /\ wc.tags = ProjectVersions(prep.prepared)

PushSucceeded ==
    /\ TagsSucceeded
    /\ StepCount("push") = 1
    /\ wc.pushed = "commits and tags"

\* C29: in a CI-mode run the steps that change the working copy, the
\* repository or the remote are taken in the order rewrite, changelog,
\* commit, tags, push, GitHub release, each of them begun only when the one
\* before it has succeeded; no tag exists without the release commit,
\* nothing is pushed without --push, and a GitHub release is attempted only
\* with --push and --github-release after a push that succeeded.
C29_StepOrder ==
    (prep.pc # "idle" /\ prep.mode = "ci") =>
        /\ \A i, j \in 1..Len(prep.steps) :
               i < j => StepRank(prep.steps[i]) <= StepRank(prep.steps[j])
        /\ (AtStep("changelogs") \/ StepCount("changelog") > 0) => RewriteSucceeded
        /\ ((AtStep("changelogs") /\ prep.i > Len(prep.prepared)) \/ StepCount("commit") > 0)
               => ChangelogsSucceeded
        /\ (AtStep("tags") \/ StepCount("tags") > 0 \/ wc.tags # {}) => CommitSucceeded
        /\ (AtStep("push") \/ StepCount("push") > 0 \/ wc.pushed # "nothing")
               => (prep.push /\ TagsSucceeded)
        /\ (AtStep("github_releases") \/ StepCount("github_release") > 0
                \/ wc.github_releases # {})
               => (prep.push /\ prep.github_release /\ PushSucceeded)

\* A CI run with --push and --github-release that took all six steps.
C29_Witness ==
    /\ prep.mode = "ci"
    /\ RunEnded("Ok0")
    /\ prep.push /\ prep.github_release
    /\ \A r \in 1..Len(StepOrder) : StepCount(StepOrder[r]) > 0
    /\ wc.github_releases # {}
    /\ PushSucceeded

----------------------------------------------------------------------------
(* Properties of the counters of analyze_commit_messages *)

CounterSum(an) == an.feat_count + an.fix_count + an.breaking_count + an.other_count

\* The analysis after the loop has processed the first k messages.
AfterPrefix(k) == AnalyzeLoop(NewAnalysis(Len(messages)), SubSeq(messages, 1, k), 1)

\* The counters that differ between two analyses.
ChangedCounters(a, b) ==
    {c \in {"feat_count", "fix_count", "breaking_count", "other_count"} : a[c] # b[c]}

\* C30: the analysis returned has feat_count + fix_count + breaking_count +
\* other_count = total_commits = the number of messages; after every step
\* of the loop the four counters sum to the number of messages processed,
\* and the step has added one to exactly one of them.
C30_CountersPartition ==
    analysis # NoAnalysis =>
        /\ analysis = AfterPrefix(Len(messages))
        /\ CounterSum(analysis) = analysis.total_commits
        /\ analysis.total_commits = Len(messages)
        /\ \A k \in 0..Len(messages) : CounterSum(AfterPrefix(k)) = k
        /\ \A k \in 1..Len(messages) :
               \E c \in {"feat_count", "fix_count", "breaking_count", "other_count"} :
                   /\ ChangedCounters(AfterPrefix(k - 1), AfterPrefix(k)) = {c}
                   /\ AfterPrefix(k)[c] = AfterPrefix(k - 1)[c] + 1

\* A breaking feature, a feature and a message that is no conventional
\* commit: three messages in three buckets.
C30_Witness ==
    /\ analysis # NoAnalysis
    /\ analysis.breaking_count = 1
    /\ analysis.feat_count = 1
    /\ analysis.other_count = 1
    /\ analysis.fix_count = 0
    /\ analysis.total_commits = Len(messages)
    /\ CounterSum(analysis) = Len(messages)

====
